---- MODULE Spec2Model ----
(***************************************************************************)
(* Code Flow Visualizer: the call-graph builder (CodeAnalyzer), the        *)
(* significance scorer and the hierarchical layout, as a state machine.    *)
(*                                                                         *)
(* Strings of the program are modelled as sequences of tokens: the name    *)
(* "f" is <<"f">>, the merged key `${name}::${fileLabel}` is               *)
(* <<"f", "::", "x.ts">>.  String concatenation is \o, startsWith is a     *)
(* prefix test.  A file name is the sequence of its '/'-separated          *)
(* segments, so fileName.split('/') is the file name itself.               *)
(***************************************************************************)
EXTENDS Integers, Sequences, FiniteSets, TLC

VARIABLES
    docs,       \* the text documents of the workspace, in findFiles order
    analysis,   \* the CodeAnalysis last handed to the visualizer
    edits,      \* number of saves made while the visualizer was open
    lastSaved,  \* the call site added by the last save
    hier,       \* result of the last hierarchical layout of `analysis`
    webview,    \* the variables of the webview script
    svg,        \* what the script has drawn on the canvas
    gestures,   \* the user's zoom clicks, wheel steps and drags so far
    notice,     \* the information message the extension showed last
    calc,       \* a function of the utilities or of the layouts, applied to
                \* an input: its argument and, once computed, its result
    editor      \* the text editor beside the panel: the messages the script
                \* posted, the navigations under way, the line highlights

vars == <<docs, analysis, edits, lastSaved, hier, webview, svg, gestures,
          notice, calc, editor>>

----------------------------------------------------------------------------
(* Bounds of the explored inputs *)

MaxFuncs == 3      \* declared functions in a workspace (Init)
MaxCalls == 1      \* call sites in a workspace (Init)
MaxEdits == 1      \* saves of an edited document
MaxSpokes == 4     \* functions around the hub of a hub-shaped file (InitHub)
MaxNodes == 3      \* functions of a file with arbitrary calls (InitGraph)
MaxChain == 2      \* calls of the call chain of a chain-shaped file (InitChain)
MaxIsolated == 1   \* isolated functions of a chain-shaped file (InitChain)
MaxZooms == 5      \* clicks on the zoom buttons of the panel
MaxComplexity == 60  \* complexities given to the band functions (InitBands)
MaxBody == 1       \* nodes, other than calls, of a function body (InitFailing)
MaxDrags == 1      \* nodes dragged in the panel

----------------------------------------------------------------------------
(* Generic helpers over sequences *)

Min(a, b) == IF a < b THEN a ELSE b
Max(a, b) == IF a > b THEN a ELSE b

Range(s) == {s[i] : i \in 1..Len(s)}

Includes(s, x) == \E i \in 1..Len(s) : s[i] = x

StartsWith(s, p) == Len(s) >= Len(p) /\ SubSeq(s, 1, Len(p)) = p

Last(s) == s[Len(s)]

RECURSIVE Concat(_)
Concat(ss) == IF ss = <<>> THEN <<>> ELSE Head(ss) \o Concat(Tail(ss))

\* index of the first record of fs whose name is n, 0 when there is none
\* (Array.prototype.find over the values, Map.prototype.get over the keys:
\* in every graph built here the map key of a record is its name field)
FindIndex(fs, n) ==
    IF \E i \in 1..Len(fs) : fs[i].name = n
    THEN CHOOSE i \in 1..Len(fs) :
            fs[i].name = n /\ \A j \in 1..(i - 1) : fs[j].name # n
    ELSE 0

\* a set that leaves an existing entry alone
MapSetIfAbsent(fs, rec) ==
    LET i == FindIndex(fs, rec.name)
    IN  IF i = 0 THEN Append(fs, rec) ELSE fs

\* Map.prototype.set: an existing key keeps its place in the insertion order
MapSet(fs, rec) ==
    LET i == FindIndex(fs, rec.name)
    IN  IF i = 0 THEN Append(fs, rec) ELSE [fs EXCEPT ![i] = rec]

----------------------------------------------------------------------------
(* CodeAnalyzer: one document -> CodeAnalysis                               *)
(*                                                                          *)
(* A document is [fileName, language, opens, throwsAt, decls, exports]:     *)
(* decls are the callable units the grammar pass meets, in source order,    *)
(* each with the node type of its declaration (form), the callee names of   *)
(* the call expressions of its body (sites) and the other nodes of its      *)
(* body (nodes), in source order; exports are the names of the exported     *)
(* declarations.  opens tells whether openTextDocument resolves for the     *)
(* file; throwsAt is 0 when the grammar pass completes, and k when it       *)
(* throws while it processes the k-th declaration.  The header of a         *)
(* declaration is the only place of the text that the regular expression    *)
(* of the fallback may match.                                               *)

\* the language ids of the switch that take the JavaScript grammar
jsLanguages == {"javascript", "typescript", "typescriptreact", "javascriptreact"}

\* a declaration `function name(...) {`
FunctionDecl(name, sites) ==
    [name |-> name, form |-> "function_declaration", sites |-> sites,
     nodes |-> <<>>]

\* a TypeScript file that opens and that the grammar pass reads to its end
SoundFile(fileName, decls, exports) ==
    [fileName |-> fileName, language |-> "typescript", opens |-> TRUE,
     throwsAt |-> 0, decls |-> decls, exports |-> exports]

\* `let complexity = ""`: a value of type string
emptyString == [typeof |-> "string", value |-> ""]

jsKeywords == << <<"if">>, <<"for">>, <<"while">>, <<"switch">>, <<"catch">> >>

\* analyzeFunctionBody: calls is a Set (first occurrence order), without the
\* function's own name and without the keywords
RECURSIVE analyzeFunctionBody(_, _, _)
analyzeFunctionBody(sites, functionName, calls) ==
    IF sites = <<>> THEN calls
    ELSE LET calleeName == Head(sites)
         IN  IF /\ calleeName # <<>>
                /\ calleeName # functionName
                /\ ~Includes(jsKeywords, calleeName)
                /\ ~Includes(calls, calleeName)
             THEN analyzeFunctionBody(Tail(sites), functionName,
                                      Append(calls, calleeName))
             ELSE analyzeFunctionBody(Tail(sites), functionName, calls)

\* analyzeFunctionBody, the value handed to setComplexity: the traversal
\* of the body leaves complexity as it was declared
RECURSIVE setComplexity(_, _)
setComplexity(nodes, complexity) ==
    IF nodes = <<>> THEN complexity
    ELSE setComplexity(Tail(nodes), complexity)

\* processJavaScriptFunction: the record stored under the function's name
processJavaScriptFunction(decl, fileName) ==
    [name         |-> decl.name,
     displayName  |-> decl.name,
     calls        |-> analyzeFunctionBody(decl.sites, decl.name, <<>>),
     calledBy     |-> <<>>,
     complexity   |-> setComplexity(decl.nodes, emptyString),
     fileName     |-> fileName,
     significance |-> 50]

\* analyzeJavaScript: every declaration met by the traversal is set in the map
RECURSIVE analyzeJavaScript(_, _, _)
analyzeJavaScript(decls, fileName, functions) ==
    IF decls = <<>> THEN functions
    ELSE analyzeJavaScript(Tail(decls), fileName,
             MapSet(functions, processJavaScriptFunction(Head(decls), fileName)))

\* buildCalledByRelationships: for (func) for (calledName of func.calls),
\* from position (i, j) on
RECURSIVE buildCalledByFrom(_, _, _)
buildCalledByFrom(fs, i, j) ==
    IF i > Len(fs) THEN fs
    ELSE IF j > Len(fs[i].calls) THEN buildCalledByFrom(fs, i + 1, 1)
    ELSE LET t == FindIndex(fs, fs[i].calls[j])
         IN  IF t # 0 /\ ~Includes(fs[t].calledBy, fs[i].name)
             THEN buildCalledByFrom(
                      [fs EXCEPT ![t].calledBy = Append(@, fs[i].name)], i, j + 1)
             ELSE buildCalledByFrom(fs, i, j + 1)

buildCalledByRelationships(fs) == buildCalledByFrom(fs, 1, 1)

\* the callees of func that are functions of fs and have at least one caller
calleesAlsoCalled(fs, func) ==
    Cardinality({j \in 1..Len(func.calls) :
        LET t == FindIndex(fs, func.calls[j])
        IN  t # 0 /\ Len(fs[t].calledBy) > 0})

\* a scorer whose hub bonus has no cap
scoreUncappedHub(fs, exports, func) ==
    LET nBy    == Len(func.calledBy)
        nCalls == Len(func.calls)
        entry  == IF nBy = 0 THEN 40 ELSE 0
        hub    == IF nBy > 0 THEN nBy * 8 ELSE 0
        coord  == IF nCalls > 3 THEN Min(nCalls * 2, 10) ELSE 0
        helper == IF nBy > 3 THEN 20 ELSE 0
        deep   == IF nCalls > 0 /\ nBy > 0 /\ calleesAlsoCalled(fs, func) > 2
                  THEN 15 ELSE 0
        export == IF Includes(exports, func.name) THEN 20 ELSE 0
    IN  50 + entry + hub + coord - helper - deep + export

\* a scorer that gives the entry-point bonus to the called functions
scoreEntryInverted(fs, exports, func) ==
    LET nBy    == Len(func.calledBy)
        nCalls == Len(func.calls)
        entry  == IF nBy > 0 THEN 40 ELSE 0
        hub    == IF nBy > 0 THEN Min(nBy * 8, 30) ELSE 0
        coord  == IF nCalls > 3 THEN Min(nCalls * 2, 10) ELSE 0
        helper == IF nBy > 3 THEN 20 ELSE 0
        deep   == IF nCalls > 0 /\ nBy > 0 /\ calleesAlsoCalled(fs, func) > 2
                  THEN 15 ELSE 0
        export == IF Includes(exports, func.name) THEN 20 ELSE 0
    IN  50 + entry + hub + coord - helper - deep + export

\* a scorer without the entry-point bonus
scoreWithoutEntryBonus(fs, exports, func) ==
    LET nBy    == Len(func.calledBy)
        nCalls == Len(func.calls)
        entry  == 0
        hub    == IF nBy > 0 THEN Min(nBy * 8, 30) ELSE 0
        coord  == IF nCalls > 3 THEN Min(nCalls * 2, 10) ELSE 0
        helper == IF nBy > 3 THEN 20 ELSE 0
        deep   == IF nCalls > 0 /\ nBy > 0 /\ calleesAlsoCalled(fs, func) > 2
                  THEN 15 ELSE 0
        export == IF Includes(exports, func.name) THEN 20 ELSE 0
    IN  50 + entry + hub + coord - helper - deep + export

score(fs, exports, func) ==
    LET nBy    == Len(func.calledBy)
        nCalls == Len(func.calls)
        base   == 50
        entry  == IF nBy = 0 THEN 40 ELSE 0
        hub    == IF nBy > 0 THEN Min(nBy * 8, 30) ELSE 0
        coord  == IF nCalls > 3 THEN Min(nCalls * 2, 10) ELSE 0
        helper == IF nBy > 3 THEN 20 ELSE 0
        deep   == IF nCalls > 0 /\ nBy > 0 /\ calleesAlsoCalled(fs, func) > 2
                  THEN 15 ELSE 0
        export == IF Includes(exports, func.name) THEN 20 ELSE 0
    IN  base + entry + hub + coord - helper - deep + export

\* a scorer that stores the score as it is
calculateSignificanceUnclamped(fs, exports) ==
    [i \in 1..Len(fs) |->
        [fs[i] EXCEPT !.significance = score(fs, exports, fs[i])]]

\* calculateSignificance: every record gets the clamped score
calculateSignificance(fs, exports) ==
    [i \in 1..Len(fs) |->
        [fs[i] EXCEPT !.significance = Max(0, Min(100, score(fs, exports, fs[i])))]]

\* the declarations whose header functionRegex matches: `function f`, and
\* `f(...) {`; not `f = (...) => {`
regexForms == {"function_declaration", "method_definition"}

\* analyzeGeneric: every match of functionRegex is set in the map of the
\* analysis it is given
RECURSIVE analyzeGeneric(_, _, _)
analyzeGeneric(decls, fileName, functions) ==
    IF decls = <<>> THEN functions
    ELSE LET functionName == Head(decls).name
             matched == [name         |-> functionName,
                         displayName  |-> functionName,
                         calls        |-> <<>>,
                         calledBy     |-> <<>>,
                         complexity   |-> emptyString,
                         fileName     |-> fileName,
                         significance |-> 50]
         IN  analyzeGeneric(Tail(decls), fileName,
                 IF Head(decls).form \in regexForms
                 THEN MapSet(functions, matched) ELSE functions)

\* the analysis at the moment the grammar pass ends or throws: the records
\* of the declarations before the one it throws at, and the exports of the
\* export statements up to that one
grammarPass(doc) ==
    LET reached == IF doc.throwsAt = 0 THEN Len(doc.decls) ELSE doc.throwsAt
        names == {doc.decls[d].name : d \in 1..reached}
    IN  [functions |-> analyzeJavaScript(
                           SubSeq(doc.decls, 1,
                                  IF doc.throwsAt = 0 THEN Len(doc.decls)
                                  ELSE doc.throwsAt - 1),
                           doc.fileName, <<>>),
         exports   |-> SelectSeq(doc.exports, LAMBDA e : e \in names)]

\* analyzeDocument: the grammar pass of the language; analyzeGeneric for
\* another language, and in the catch block on the analysis as the pass
\* left it
analyzeDocument(doc) ==
    LET parsed == IF doc.language \in jsLanguages
                  THEN LET tried == grammarPass(doc)
                       IN  IF doc.throwsAt = 0 THEN tried
                           ELSE [tried EXCEPT !.functions =
                                    analyzeGeneric(doc.decls, doc.fileName, @)]
                  ELSE [functions |-> analyzeGeneric(doc.decls, doc.fileName, <<>>),
                        exports   |-> <<>>]
        built  == buildCalledByRelationships(parsed.functions)
    IN  [fileName  |-> doc.fileName,
         functions |-> calculateSignificance(built, parsed.exports),
         exports   |-> parsed.exports]

----------------------------------------------------------------------------
(* CodeAnalyzer.mergeAnalyses *)

WorkspaceAnalysis == <<"Workspace Analysis">>

\* analysis.fileName.split('/').pop() || analysis.fileName ; a document's
\* file name never ends in '/', so its last segment is never empty
fileLabel(fileName) == <<Last(fileName)>>

\* a key made of the name alone
uniqueKeyWithoutLabel(name, label) == name \o <<"::">>

\* a key made of the file label alone
uniqueKeyWithoutName(name, label) == <<"::">> \o label

uniqueKey(name, label) == name \o <<"::">> \o label

\* first pass over one analysis: every function is set under its unique key
RECURSIVE firstPassFunctions(_, _, _)
firstPassFunctions(merged, fs, fileName) ==
    IF fs = <<>> THEN merged
    ELSE LET func == Head(fs)
             key  == uniqueKey(func.name, fileLabel(fileName))
         IN  firstPassFunctions(
                 MapSet(merged, [func EXCEPT !.name = key,
                                             !.displayName = func.name,
                                             !.fileName = fileName]),
                 Tail(fs), fileName)

RECURSIVE firstPass(_, _)
firstPass(merged, analyses) ==
    IF analyses = <<>> THEN merged
    ELSE firstPass(firstPassFunctions(merged, Head(analyses).functions,
                                      Head(analyses).fileName),
                   Tail(analyses))

\* the first key, in insertion order, that starts with calledName + '::'
firstKeyOfBaseName(merged, calledName) ==
    LET hit(i) == StartsWith(merged[i].name, calledName \o <<"::">>)
    IN  IF \E i \in 1..Len(merged) : hit(i)
        THEN merged[CHOOSE i \in 1..Len(merged) :
                        hit(i) /\ \A j \in 1..(i - 1) : ~hit(j)].name
        ELSE calledName

\* a rewrite that takes the first function of that name in any file
rewriteCallAnyFile(merged, label, calledName) ==
    firstKeyOfBaseName(merged, calledName)

\* the callback of func.calls.map in the second pass
rewriteCall(merged, label, calledName) ==
    LET sameFileKey == uniqueKey(calledName, label)
    IN  IF FindIndex(merged, sameFileKey) # 0
        THEN sameFileKey
        ELSE firstKeyOfBaseName(merged, calledName)

\* second pass that rewrites the calls and keeps the calledBy it finds
RECURSIVE secondPassKeepingCallers(_, _, _)
secondPassKeepingCallers(merged, fs, label) ==
    IF fs = <<>> THEN merged
    ELSE LET func == Head(fs)
             m    == FindIndex(merged, uniqueKey(func.name, label))
             next == IF m = 0 THEN merged
                     ELSE [merged EXCEPT
                             ![m].calls = [c \in 1..Len(func.calls) |->
                                             rewriteCall(merged, label, func.calls[c])]]
         IN  secondPassKeepingCallers(next, Tail(fs), label)

RECURSIVE secondPassFunctions(_, _, _)
secondPassFunctions(merged, fs, label) ==
    IF fs = <<>> THEN merged
    ELSE LET func == Head(fs)
             m    == FindIndex(merged, uniqueKey(func.name, label))
             next == IF m = 0 THEN merged
                     ELSE [merged EXCEPT
                             ![m].calls = [c \in 1..Len(func.calls) |->
                                             rewriteCall(merged, label, func.calls[c])],
                             ![m].calledBy = <<>>]
         IN  secondPassFunctions(next, Tail(fs), label)

RECURSIVE secondPass(_, _)
secondPass(merged, analyses) ==
    IF analyses = <<>> THEN merged
    ELSE secondPass(secondPassFunctions(merged, Head(analyses).functions,
                                        fileLabel(Head(analyses).fileName)),
                    Tail(analyses))

\* third pass: for ([funcKey, func]) for (calledKey of func.calls)
RECURSIVE thirdPassFrom(_, _, _)
thirdPassFrom(merged, i, j) ==
    IF i > Len(merged) THEN merged
    ELSE IF j > Len(merged[i].calls) THEN thirdPassFrom(merged, i + 1, 1)
    ELSE LET t == FindIndex(merged, merged[i].calls[j])
         IN  IF t # 0 /\ ~Includes(merged[t].calledBy, merged[i].name)
             THEN thirdPassFrom(
                      [merged EXCEPT ![t].calledBy = Append(@, merged[i].name)],
                      i, j + 1)
             ELSE thirdPassFrom(merged, i, j + 1)

thirdPass(merged) == thirdPassFrom(merged, 1, 1)

mergeAnalyses(analyses) ==
    LET exports == Concat([a \in 1..Len(analyses) |-> analyses[a].exports])
        merged  == thirdPass(secondPass(firstPass(<<>>, analyses), analyses))
    IN  [fileName  |-> WorkspaceAnalysis,
         functions |-> calculateSignificance(merged, exports),
         exports   |-> exports]

----------------------------------------------------------------------------
(* calculateHierarchicalLayout(functions, width, height) *)

SetMax(S) == CHOOSE x \in S : \A y \in S : y <= x

\* getMaxDepth: every callee gets its own copy of the path's visited set
RECURSIVE getMaxDepth(_, _, _)
getMaxDepth(functions, node, depthVisited) ==
    IF node.name \in depthVisited THEN 0
    ELSE IF Len(node.calls) = 0 THEN 0
    ELSE LET onPath == depthVisited \cup {node.name}
             found  == {j \in 1..Len(node.calls) :
                            FindIndex(functions, node.calls[j]) # 0}
         IN  SetMax({0} \cup
                 {getMaxDepth(functions,
                      functions[FindIndex(functions, node.calls[j])], onPath) + 1 :
                  j \in found})

\* the while (toVisit.length > 0) loop: toVisit is a stack of names
RECURSIVE chainFrom(_, _, _)
chainFrom(functions, toVisit, chainVisited) ==
    IF toVisit = <<>> THEN chainVisited
    ELSE LET current == Last(toVisit)
             rest    == SubSeq(toVisit, 1, Len(toVisit) - 1)
         IN  IF current \in chainVisited
             THEN chainFrom(functions, rest, chainVisited)
             ELSE LET seen   == chainVisited \cup {current}
                      calls  == functions[FindIndex(functions, current)].calls
                      pushed == SelectSeq(calls, LAMBDA c :
                                    FindIndex(functions, c) # 0 /\ c \notin seen)
                  IN  chainFrom(functions, rest \o pushed, seen)

\* first forEach: deep chains (depth >= 2) and hubs (2+ callers), with
\* everything they transitively call
chainsAndHubs(functions) ==
    UNION {chainFrom(functions, <<functions[i].name>>, {}) :
              i \in {i \in 1..Len(functions) :
                        \/ getMaxDepth(functions, functions[i], {}) >= 2
                        \/ Len(functions[i].calledBy) >= 2}}

\* second forEach: callers of meaningful nodes, the set growing as it goes
RECURSIVE includeCallers(_, _, _)
includeCallers(functions, i, meaningfulNodes) ==
    IF i > Len(functions) THEN meaningfulNodes
    ELSE includeCallers(functions, i + 1,
             IF \E c \in Range(functions[i].calls) : c \in meaningfulNodes
             THEN meaningfulNodes \cup {functions[i].name}
             ELSE meaningfulNodes)

meaningfulNodesOf(functions) ==
    includeCallers(functions, 1, chainsAndHubs(functions))

\* a display of every function of the graph
functionsToDisplayOfAll(functions, meaningfulNodes) == functions

\* meaningful nodes if found, otherwise any connected node
functionsToDisplayOf(functions, meaningfulNodes) ==
    IF meaningfulNodes # {}
    THEN SelectSeq(functions, LAMBDA f : f.name \in meaningfulNodes)
    ELSE SelectSeq(functions, LAMBDA f : Len(f.calls) > 0 \/ Len(f.calledBy) > 0)

rootsOf(display, meaningfulNodes) ==
    LET roots == SelectSeq(display, LAMBDA f :
                     \/ Len(f.calledBy) = 0
                     \/ ~\E c \in Range(f.calledBy) : c \in meaningfulNodes)
    IN  IF roots = <<>> /\ display # <<>> THEN <<display[1]>> ELSE roots

\* assignLevels: st = [visited, placed], placed lists the (name, level)
\* pairs in the order of levels.get(level).push(node)
RECURSIVE assignLevels(_, _, _, _)
RECURSIVE assignCallees(_, _, _, _)
\* the traversal with the callees on the level of their caller
assignLevelsSameLevel(display, node, level, st) ==
    IF node.name \in st.visited THEN st
    ELSE assignCallees(display, node.calls, level,
             [visited |-> st.visited \cup {node.name},
              placed  |-> Append(st.placed, [name |-> node.name, level |-> level])])

assignLevels(display, node, level, st) ==
    IF node.name \in st.visited THEN st
    ELSE assignCallees(display, node.calls, level + 1,
             [visited |-> st.visited \cup {node.name},
              placed  |-> Append(st.placed, [name |-> node.name, level |-> level])])

assignCallees(display, calls, level, st) ==
    IF calls = <<>> THEN st
    ELSE LET c == FindIndex(display, Head(calls))
         IN  assignCallees(display, Tail(calls), level,
                 IF c # 0 THEN assignLevels(display, display[c], level, st) ELSE st)

RECURSIVE assignRoots(_, _, _)
\* a traversal whose visited set is emptied before each root
assignRootsForgetting(display, roots, st) ==
    IF roots = <<>> THEN st
    ELSE assignRoots(display, Tail(roots),
                     assignLevels(display, Head(roots), 0,
                                  [st EXCEPT !.visited = {}]))

\* roots.forEach(root => assignLevels(root, 0)): one visited set for all
assignRoots(display, roots, st) ==
    IF roots = <<>> THEN st
    ELSE assignRoots(display, Tail(roots),
                     assignLevels(display, Head(roots), 0, st))

HiddenPosition == [x |-> -10000, y |-> -10000]
horizontalPadding == 150
verticalPadding == 120
maxSpacing == 250

\* the position of the index-th (0-based) of nodeCount nodes of a level;
\* the canvas sizes explored make every quotient exact
levelPosition(level, maxLevel, index, nodeCount, width, height) ==
    LET y == IF maxLevel > 0
             THEN verticalPadding
                  + (level * (height - 2 * verticalPadding)) \div maxLevel
             ELSE height \div 2
        availableWidth == width - 2 * horizontalPadding
        spacing    == Min(maxSpacing, availableWidth \div (nodeCount - 1))
        totalWidth == spacing * (nodeCount - 1)
        startX     == (width - totalWidth) \div 2
        x == IF nodeCount = 1 THEN width \div 2 ELSE startX + spacing * index
    IN  [x |-> x, y |-> y]

\* positions that leave an unvisited function at the initial (0, 0)
positionOfUnvisitedAtOrigin(name, st, width, height) ==
    LET placed   == st.placed
        maxLevel == IF placed = <<>> THEN 0
                    ELSE SetMax({placed[p].level : p \in 1..Len(placed)})
        slot     == CHOOSE p \in 1..Len(placed) : placed[p].name = name
        level    == placed[slot].level
        index    == Cardinality({q \in 1..(slot - 1) : placed[q].level = level})
        count    == Cardinality({q \in 1..Len(placed) : placed[q].level = level})
    IN  IF name \in st.visited
        THEN levelPosition(level, maxLevel, index, count, width, height)
        ELSE [x |-> 0, y |-> 0]

\* the position of one function once the levels are assigned: hidden
\* unless visited, then its place in the band of its level
positionOf(name, st, width, height) ==
    LET placed   == st.placed
        maxLevel == IF placed = <<>> THEN 0
                    ELSE SetMax({placed[p].level : p \in 1..Len(placed)})
        slot     == CHOOSE p \in 1..Len(placed) : placed[p].name = name
        level    == placed[slot].level
        index    == Cardinality({q \in 1..(slot - 1) : placed[q].level = level})
        count    == Cardinality({q \in 1..Len(placed) : placed[q].level = level})
    IN  IF name \in st.visited
        THEN levelPosition(level, maxLevel, index, count, width, height)
        ELSE HiddenPosition

calculateHierarchicalLayout(functions, width, height) ==
    LET meaningfulNodes == meaningfulNodesOf(functions)
        display  == functionsToDisplayOf(functions, meaningfulNodes)
        st       == assignRoots(display, rootsOf(display, meaningfulNodes),
                                [visited |-> {}, placed |-> <<>>])
    IN  [positions |-> [i \in 1..Len(functions) |->
                           positionOf(functions[i].name, st, width, height)],
         placed |-> st.placed,
         canvas |-> <<width, height>>]

NoLayout == [positions |-> <<>>, placed |-> <<>>, canvas |-> <<0, 0>>]

----------------------------------------------------------------------------
(* The explored documents *)

NamePool == <<"f", "g", "h">>          \* names declared in workspace files
LibraryNames == <<"ext">>              \* a callee no file declares
HubName == "f"
SpokePool == <<"g", "h", "k", "m", "n", "p">>
NodePool == <<"p", "q", "r", "s", "t">>
ChainPool == <<"v0", "v1", "v2", "v3", "v4">>
IsolatedPool == <<"i1", "i2", "i3">>

ax == <<"a", "x.ts">>
bx == <<"b", "x.ts">>
ay == <<"a", "y.ts">>
az == <<"a", "z.ts">>

\* the file lists returned by findFiles: three labels, or two files that
\* share the label x.ts
Workspaces == {<<ax, ay, az>>, <<ax, bx, ay>>}

CanvasSizes == {<<1500, 840>>, <<900, 540>>}

MaxWorkspaceFiles == 50                \* files.slice(0, 50)

BoundedSubsets(S, k) == {T \in SUBSET S : Cardinality(T) <= k}

MapSeq(s, Op(_)) == [k \in 1..Len(s) |-> Op(s[k])]

Token(n) == <<n>>

\* document i of a workspace: D are the declared (file, name) pairs, C the
\* (file, name, callee) call sites, whose callee may be a name that no file
\* declares, E the exported (file, name) pairs
WorkspaceDoc(fileName, i, D, C, E) ==
    LET declared == SelectSeq(NamePool, LAMBDA n : <<i, n>> \in D)
        sitesOf(n) == MapSeq(SelectSeq(NamePool,
                                       LAMBDA c : <<i, n, c>> \in C), Token)
        declOf(n) == FunctionDecl(<<n>>, sitesOf(n))
    IN  SoundFile(fileName, MapSeq(declared, declOf),
                  MapSeq(SelectSeq(NamePool, LAMBDA n : <<i, n>> \in E), Token))

\* a file made of a hub, called by the first nCallers spokes and calling
\* the names of callees
HubDoc(nCallers, callees, exported) ==
    LET spokes == SubSeq(SpokePool, 1, MaxSpokes)
        hub == FunctionDecl(<<HubName>>,
                            MapSeq(SelectSeq(spokes \o LibraryNames,
                                             LAMBDA c : c \in callees), Token))
        spokeDecl(k) == FunctionDecl(<<spokes[k]>>,
                                     IF k <= nCallers THEN << <<HubName>> >>
                                     ELSE <<>>)
    IN  SoundFile(ax, <<hub>> \o [k \in 1..Len(spokes) |-> spokeDecl(k)],
                  IF exported THEN << <<HubName>> >> ELSE <<>>)

\* a file of the functions nodes; calls[n] are the functions n calls
GraphDocOn(nodes, calls) ==
    LET declOf(n) == FunctionDecl(<<n>>,
                                  MapSeq(SelectSeq(nodes, LAMBDA c : c \in calls[n]),
                                         Token))
    IN  SoundFile(ax, MapSeq(nodes, declOf), <<>>)

\* a file of MaxNodes functions
GraphDoc(calls) == GraphDocOn(SubSeq(NodePool, 1, MaxNodes), calls)

\* a file of the chain v0 -> ... -> vk and iso isolated functions, declared
\* in the order given by the permutation order
ChainDoc(k, iso, order) ==
    LET chain == SubSeq(ChainPool, 1, k + 1)
        declOf(p) == FunctionDecl(<<chain[p]>>,
                                  IF p <= k THEN << <<chain[p + 1]>> >> ELSE <<>>)
        isoOf(q)  == FunctionDecl(<<IsolatedPool[q]>>, <<>>)
        decls == [p \in 1..(k + 1) |-> declOf(p)] \o [q \in 1..iso |-> isoOf(q)]
    IN  SoundFile(ax, [p \in 1..Len(decls) |-> decls[order[p]]], <<>>)

NoAnalysis == [fileName |-> <<>>, functions |-> <<>>, exports |-> <<>>]

NoSave == [doc |-> 0, decl |-> 0, callee |-> <<>>]

\* showInformationMessage of analyzeWorkspace, before the loop and after
\* the visualization is updated
NoNotice == [text |-> "", files |-> 0]
AnalyzingWorkspace ==
    [text |-> "Analyzing workspace... This may take a moment.", files |-> 0]
AnalyzedFiles(n) == [text |-> "Analyzed ${files.length} files in workspace", files |-> n]

\* no function is under study
NoCall == [fn |-> "", arg |-> <<>>, result |-> <<>>]

\* an editor on the first document, nothing posted, nothing highlighted
EditorIdle ==
    [active      |-> 1,
     inbox       |-> <<>>,
     navigating  |-> {},
     decorations |-> {},
     current     |-> 0,
     created     |-> 0,
     pointer     |-> 0,
     hovers      |-> 0]

\* the loop of analyzeWorkspace goes through: openTextDocument resolves for
\* each of the first files
allOpen(files) == \A i \in 1..Len(files) : files[i].opens

----------------------------------------------------------------------------
(* The webview script: the significance filter, the layouts it chooses      *)
(* and the views it draws.  A scale is held in thousandths: 1000 is the     *)
(* scale 1.  A function whose record has no significance field is one      *)
(* whose significance is undefined.                                         *)

ZOOM_THRESHOLD == 1500

\* scale threshold -> minimum significance
SIGNIFICANCE_LEVELS ==
    [t \in {500, 800, 1000, 1300, 1800, 2500} |->
        CASE t = 500  -> 70
          [] t = 800  -> 50
          [] t = 1000 -> 30
          [] t = 1300 -> 20
          [] t = 1800 -> 10
          [] t = 2500 -> 0]

SetMin(S) == CHOOSE x \in S : \A y \in S : x <= y

\* Object.keys(...).map(parseFloat).sort((a, b) => a - b)
RECURSIVE sortAscending(_)
sortAscending(S) ==
    IF S = {} THEN <<>>
    ELSE <<SetMin(S)>> \o sortAscending(S \ {SetMin(S)})

\* the loop of getMinSignificance, from the greatest threshold down
RECURSIVE scanThresholds(_, _, _)
scanThresholds(thresholds, i, zoomLevel) ==
    IF i = 0 THEN SIGNIFICANCE_LEVELS[thresholds[1]]
    ELSE IF zoomLevel >= thresholds[i] THEN SIGNIFICANCE_LEVELS[thresholds[i]]
    ELSE scanThresholds(thresholds, i - 1, zoomLevel)

\* a lookup that stops at the smallest threshold the scale has reached
getMinSignificanceFirstReached(zoomLevel) ==
    LET reached == {t \in DOMAIN SIGNIFICANCE_LEVELS : zoomLevel >= t}
    IN  SIGNIFICANCE_LEVELS[SetMin(IF reached = {} THEN DOMAIN SIGNIFICANCE_LEVELS
                                   ELSE reached)]

getMinSignificance(zoomLevel) ==
    LET thresholds == sortAscending(DOMAIN SIGNIFICANCE_LEVELS)
    IN  scanThresholds(thresholds, Len(thresholds), zoomLevel)

\* func.significance !== undefined ? func.significance : 100
significanceOrDefault(func) ==
    IF "significance" \in DOMAIN func THEN func.significance ELSE 100

\* a filter for which a missing significance is the lowest one
shouldShowFunctionFailClosed(func, zoomLevel, isWorkspaceMode, expandedFiles, filesToShow) ==
    IF isWorkspaceMode /\ expandedFiles # {} /\ func.fileName \notin filesToShow
    THEN FALSE
    ELSE (IF "significance" \in DOMAIN func THEN func.significance ELSE 0)
             >= getMinSignificance(zoomLevel)

shouldShowFunction(func, zoomLevel, isWorkspaceMode, expandedFiles, filesToShow) ==
    IF isWorkspaceMode /\ expandedFiles # {} /\ func.fileName \notin filesToShow
    THEN FALSE
    ELSE significanceOrDefault(func) >= getMinSignificance(zoomLevel)

\* Math.ceil(Math.sqrt(n * 1.5)) and Math.ceil(Math.sqrt(n)), n >= 1
CeilSqrtOfHalves(n, halves) ==
    CHOOSE c \in 1..(n + 1) :
        /\ 2 * c * c >= halves * n
        /\ 2 * (c - 1) * (c - 1) < halves * n

CeilDiv(a, b) == (a + b - 1) \div b

Clamp3(lo, hi, v) == Max(lo, Min(hi, v))

\* the file names of the functions, in the order of their first function
RECURSIVE clusterKeys(_, _)
clusterKeys(functions, keys) ==
    IF functions = <<>> THEN keys
    ELSE clusterKeys(Tail(functions),
             IF Includes(keys, Head(functions).fileName) THEN keys
             ELSE Append(keys, Head(functions).fileName))

\* the outcomes of the random starts of the force layouts
Seeds == {0, 1}

\* the start in which Math.random() returns 0.5: every node of a cluster
\* starts on the centre of its cluster
CentredStart == 2

\* the coordinate NaN, apart from every coordinate of the canvas
NaN == -7777777

\* where the simulation of a cluster leaves its q-th node (from 0),
\* relative to the centre of the cluster: in rows for one seed, in
\* columns for the other, minDistance apart
settledOffset(seed, q) ==
    IF seed = 0 THEN [x |-> ((q % 3) - 1) * 80, y |-> (q \div 3) * 80]
    ELSE [x |-> (q \div 3) * 80, y |-> ((q % 3) - 1) * 80]

\* calculateClusteredLayout: one box per file on a grid of boxes, every
\* node kept inside the box of its file, fileClusters set to the clusters
calculateClusteredLayout(functions, width, height, seed) ==
    LET clusterArray   == clusterKeys(functions, <<>>)
        numClusters    == Len(clusterArray)
        cols           == CeilSqrtOfHalves(numClusters, 3)
        rows           == CeilDiv(numClusters, cols)
        clusterWidth   == Max(250, (width - 400) \div cols)
        clusterHeight  == Max(200, (height - 300) \div rows)
        clusterIndex(i) == (CHOOSE c \in 1..numClusters :
                               clusterArray[c] = functions[i].fileName) - 1
        inCluster(i)   == Cardinality({j \in 1..(i - 1) :
                               functions[j].fileName = functions[i].fileName})
        centerX(i)     == 200 + (clusterIndex(i) % cols) * clusterWidth
                              + clusterWidth \div 2
        centerY(i)     == 150 + (clusterIndex(i) \div cols) * clusterHeight
                              + clusterHeight \div 2
        off(i)         == settledOffset(seed, inCluster(i))
    IN  [positions |->
            [i \in 1..Len(functions) |->
                IF seed = CentredStart
                THEN \* the centre attraction divides 0 by the distance 0
                     [x |-> NaN, y |-> NaN]
                ELSE
                [x |-> Clamp3(centerX(i) - clusterWidth \div 2 + 30,
                              centerX(i) + clusterWidth \div 2 - 30,
                              centerX(i) + off(i).x),
                 y |-> Clamp3(centerY(i) - clusterHeight \div 2 + 30,
                              centerY(i) + clusterHeight \div 2 - 30,
                              centerY(i) + off(i).y)]],
         fileClusters |-> Range(clusterArray)]

\* calculateForceLayout: a grid, every node kept 80 inside the canvas
calculateForceLayout(functions, width, height, seed) ==
    LET cols    == CeilSqrtOfHalves(Len(functions), 2)
        spacing == Min(width, height) \div (cols + 1)
    IN  [i \in 1..Len(functions) |->
            [x |-> Clamp3(80, width - 80,
                          spacing * (((i - 1) % cols) + 1) + 10 * seed),
             y |-> Clamp3(80, height - 80,
                          spacing * (((i - 1) \div cols) + 1) - 10 * seed)]]

\* the band of a level in the script's hierarchical layout
scriptLevelPosition(level, maxLevel, index, nodeCount, width, height) ==
    [x |-> IF nodeCount > 1
           THEN (index * (width - 100)) \div (nodeCount - 1) + 50
           ELSE width \div 2,
     y |-> IF maxLevel > 0
           THEN (level * (height - 100)) \div maxLevel + 50
           ELSE height \div 2]

\* calculateHierarchicalLayout of the script: the levels of the layout
\* above, the bands of the script
scriptHierarchicalLayout(functions, width, height) ==
    LET meaningfulNodes == meaningfulNodesOf(functions)
        display  == functionsToDisplayOf(functions, meaningfulNodes)
        st       == assignRoots(display, rootsOf(display, meaningfulNodes),
                                [visited |-> {}, placed |-> <<>>])
        placed   == st.placed
        maxLevel == IF placed = <<>> THEN 0
                    ELSE SetMax({placed[p].level : p \in 1..Len(placed)})
        slot(n)  == CHOOSE p \in 1..Len(placed) : placed[p].name = n
        index(n) == Cardinality({q \in 1..(slot(n) - 1) :
                        placed[q].level = placed[slot(n)].level})
        count(n) == Cardinality({q \in 1..Len(placed) :
                        placed[q].level = placed[slot(n)].level})
    IN  [i \in 1..Len(functions) |->
            IF functions[i].name \in st.visited
            THEN scriptLevelPosition(placed[slot(functions[i].name)].level,
                     maxLevel, index(functions[i].name),
                     count(functions[i].name), width, height)
            ELSE HiddenPosition]

\* updateLayoutDescription: the text under the canvas
updateLayoutDescription(w) ==
    LET minSig == getMinSignificance(w.scale)
        allFuncs == w.currentData.functions
        funcCount == Cardinality({i \in 1..Len(allFuncs) :
                         significanceOrDefault(allFuncs[i]) >= minSig})
    IN  IF w.currentData = NoAnalysis
        THEN [text |-> "No data loaded", minSig |-> minSig, funcCount |-> 0]
        ELSE IF w.isWorkspaceMode /\ w.currentLayout = "force"
        THEN IF w.scale > ZOOM_THRESHOLD \/ w.expandedFiles # {}
             THEN [text |-> "Showing", minSig |-> minSig, funcCount |-> funcCount]
             ELSE [text |-> "File overview", minSig |-> minSig,
                   funcCount |-> funcCount]
        ELSE IF w.currentLayout = "hierarchical"
        THEN [text |-> "Hierarchical", minSig |-> minSig, funcCount |-> funcCount]
        ELSE [text |-> "Showing", minSig |-> minSig, funcCount |-> funcCount]

\* renderOverviewBlocks: one block per file that has a node on the canvas,
\* fileClusters refilled with those files
renderOverviewBlocks(functions, positions) ==
    LET onCanvas(f) == {i \in 1..Len(functions) :
                           functions[i].fileName = f /\ positions[i].x > -1000}
        files == {functions[i].fileName : i \in
                     {i \in 1..Len(functions) : positions[i].x > -1000}}
        xs(f) == {positions[i].x : i \in onCanvas(f)}
        ys(f) == {positions[i].y : i \in onCanvas(f)}
    IN  [view   |-> "overview",
         nodes  |-> {},
         links  |-> {},
         blocks |-> {[fileName |-> f,
                      width  |-> Max(180, SetMax(xs(f)) - SetMin(xs(f)) + 2 * 30),
                      height |-> Max(100, SetMax(ys(f)) - SetMin(ys(f)) + 2 * 30)] :
                     f \in files},
         fileClusters |-> files]

\* renderDetailedView: the links and nodes of the functions that pass the
\* filter, in the expanded files or else in the files of fileClusters
renderDetailedView(functions, positions, w) ==
    LET filesToShow == IF w.expandedFiles # {} THEN w.expandedFiles
                       ELSE w.fileClusters
        visibleIndices == {i \in 1..Len(functions) :
            /\ positions[i].x > -1000
            /\ shouldShowFunction(functions[i], w.scale, w.isWorkspaceMode,
                                  w.expandedFiles, filesToShow)}
    IN  [view   |-> "detailed",
         nodes  |-> {i \in visibleIndices : functions[i].fileName \in filesToShow},
         links  |-> {l \in visibleIndices \X (1..Len(functions)) :
                        /\ \E c \in Range(functions[l[1]].calls) :
                              FindIndex(functions, c) = l[2]
                        /\ l[2] \in visibleIndices
                        /\ positions[l[2]].x > -1000
                        /\ functions[l[2]].fileName \in filesToShow},
         blocks |-> {},
         fileClusters |-> w.fileClusters]

\* renderStandardView: the links and nodes of the functions that pass the
\* filter, no file being shown by name
renderStandardView(functions, positions, w) ==
    LET visibleIndices == {i \in 1..Len(functions) :
            /\ positions[i].x > -1000
            /\ shouldShowFunction(functions[i], w.scale, w.isWorkspaceMode,
                                  w.expandedFiles, {})}
    IN  [view   |-> "standard",
         nodes  |-> {i \in visibleIndices : ~(positions[i].x < -1000)},
         links  |-> {l \in visibleIndices \X (1..Len(functions)) :
                        /\ ~(positions[l[1]].x < -1000)
                        /\ \E c \in Range(functions[l[1]].calls) :
                              FindIndex(functions, c) = l[2]
                        /\ l[2] \in visibleIndices
                        /\ positions[l[2]].x > -1000},
         blocks |-> {},
         fileClusters |-> w.fileClusters]

NoDescription ==
    [text |-> "Showing all connected functions", minSig |-> 0, funcCount |-> 0]

BlankSvg == [view |-> "blank", nodes |-> {}, links |-> {}, blocks |-> {},
             at |-> <<>>, description |-> NoDescription]

\* the rest of renderVisualization once the positions are chosen: the view
\* of the current mode, then the description
drawPositions(w, functions, workspaceMode, positions, clusters) ==
    LET laidOut == [w EXCEPT !.isWorkspaceMode = workspaceMode,
                             !.nodePositions = positions,
                             !.fileClusters = clusters]
        drawn == IF workspaceMode /\ w.currentLayout = "force"
                 THEN IF w.scale > ZOOM_THRESHOLD \/ w.expandedFiles # {}
                      THEN renderDetailedView(functions, positions, laidOut)
                      ELSE renderOverviewBlocks(functions, positions)
                 ELSE renderStandardView(functions, positions, laidOut)
        after == [laidOut EXCEPT !.fileClusters = drawn.fileClusters]
    IN  [w   |-> after,
         svg |-> [view   |-> drawn.view,
                  nodes  |-> drawn.nodes,
                  links  |-> drawn.links,
                  blocks |-> drawn.blocks,
                  at     |-> [i \in drawn.nodes |-> positions[i]],
                  description |-> updateLayoutDescription(after)]]

\* the layouts of the current mode: one per outcome of the random starts
layoutsOf(w, functions, workspaceMode, width, height) ==
    IF w.currentLayout = "force"
    THEN IF workspaceMode
         THEN {calculateClusteredLayout(functions, width, height, seed) :
                  seed \in Seeds \cup {CentredStart}}
         ELSE {[positions |-> calculateForceLayout(functions, width, height, seed),
                fileClusters |-> w.fileClusters] : seed \in Seeds}
    ELSE {[positions |-> scriptHierarchicalLayout(functions, width, height),
           fileClusters |-> w.fileClusters]}

\* positions used as they are
positionsNotValidated(positions, width, height) == positions

\* the validation of renderVisualization: a position with a NaN coordinate
\* is moved near the centre of the canvas (Math.random() being 0.5 there)
validPositions(positions, width, height) ==
    [i \in 1..Len(positions) |->
        IF positions[i].x = NaN \/ positions[i].y = NaN
        THEN [x |-> width \div 2, y |-> height \div 2]
        ELSE positions[i]]

\* a render that lays the graph out whenever it is asked to draw
renderVisualizationAlwaysLaidOut(w, s, width, height) ==
    LET functions == w.currentData.functions
        workspaceMode == \E i \in 1..Len(functions) :
                             "fileName" \in DOMAIN functions[i]
    IN  IF w.currentData = NoAnalysis THEN {[w |-> w, svg |-> s]}
        ELSE IF functions = <<>>
        THEN {[w |-> w,
               svg |-> [BlankSvg EXCEPT !.view = "empty",
                                        !.description = s.description]]}
        ELSE {drawPositions(w, functions, workspaceMode,
                            validPositions(l.positions, width, height),
                            l.fileClusters) :
                 l \in layoutsOf(w, functions, workspaceMode, width, height)}

\* renderVisualization: the stored positions if there is one per function,
\* else a layout of the current mode; the set of its outcomes
renderVisualization(w, s, width, height) ==
    LET functions == w.currentData.functions
        workspaceMode == \E i \in 1..Len(functions) :
                             "fileName" \in DOMAIN functions[i]
    IN  IF w.currentData = NoAnalysis THEN {[w |-> w, svg |-> s]}
        ELSE IF functions = <<>>
        THEN {[w |-> w,
               svg |-> [BlankSvg EXCEPT !.view = "empty",
                                        !.description = s.description]]}
        ELSE IF Len(w.nodePositions) = Len(functions)
        THEN {drawPositions(w, functions, workspaceMode,
                            validPositions(w.nodePositions, width, height),
                            w.fileClusters)}
        ELSE {drawPositions(w, functions, workspaceMode,
                            validPositions(l.positions, width, height),
                            l.fileClusters) :
                 l \in layoutsOf(w, functions, workspaceMode, width, height)}

\* the script's variables when the panel has loaded
InitialWebview ==
    [currentData     |-> NoAnalysis,
     currentLayout   |-> "force",
     scale           |-> 1000,
     nodePositions   |-> <<>>,
     expandedFiles   |-> {},
     fileClusters    |-> {},
     isWorkspaceMode |-> FALSE]

NoGestures == [zooms |-> 0, drags |-> 0]

\* the panel has loaded and has drawn nothing yet
PanelLoaded ==
    /\ webview = InitialWebview
    /\ svg = BlankSvg
    /\ gestures = NoGestures

Init ==
    /\ \E w \in Workspaces :
       \E D \in BoundedSubsets((1..Len(w)) \X Range(NamePool), MaxFuncs) :
       \E C \in BoundedSubsets(
                   {<<d[1], d[2], c>> : d \in D, c \in Range(NamePool)}
                   \ {<<d[1], d[2], d[2]>> : d \in D}, MaxCalls) :
       \E E \in {{}, {d \in D : d[2] = NamePool[1]}} :
          docs = [i \in 1..Len(w) |-> WorkspaceDoc(w[i], i, D, C, E)]
    /\ analysis = NoAnalysis
    /\ edits = 0
    /\ lastSaved = NoSave
    /\ hier = NoLayout
    /\ PanelLoaded
    /\ notice = NoNotice
    /\ calc = NoCall
    /\ editor = EditorIdle

InitHub ==
    /\ \E nCallers \in 0..MaxSpokes :
       \E callees \in SUBSET (Range(SubSeq(SpokePool, 1, MaxSpokes))
                              \cup Range(LibraryNames)) :
       \E exported \in BOOLEAN :
          docs = <<HubDoc(nCallers, callees, exported)>>
    /\ analysis = NoAnalysis
    /\ edits = 0
    /\ lastSaved = NoSave
    /\ hier = NoLayout
    /\ PanelLoaded
    /\ notice = NoNotice
    /\ calc = NoCall
    /\ editor = EditorIdle

InitGraph ==
    /\ \E calls \in [Range(SubSeq(NodePool, 1, MaxNodes)) ->
                        SUBSET Range(SubSeq(NodePool, 1, MaxNodes))] :
          /\ \A n \in DOMAIN calls : n \notin calls[n]
          /\ docs = <<GraphDoc(calls)>>
    /\ analysis = NoAnalysis
    /\ edits = 0
    /\ lastSaved = NoSave
    /\ hier = NoLayout
    /\ PanelLoaded
    /\ notice = NoNotice
    /\ calc = NoCall
    /\ editor = EditorIdle

InitChain ==
    /\ \E k \in 2..MaxChain : \E iso \in 0..MaxIsolated :
       \E order \in Permutations(1..(k + 1 + iso)) :
          docs = <<ChainDoc(k, iso, order)>>
    /\ analysis = NoAnalysis
    /\ edits = 0
    /\ lastSaved = NoSave
    /\ hier = NoLayout
    /\ PanelLoaded
    /\ notice = NoNotice
    /\ calc = NoCall
    /\ editor = EditorIdle

InitScore == InitHub \/ InitGraph \/ InitChain

----------------------------------------------------------------------------
(* Commands of the extension and of the webview *)

\* analyzeCurrentFile on document i
AnalyzeCurrentFile(i) ==
    /\ docs[i].opens
    /\ analysis' = analyzeDocument(docs[i])
    /\ hier' = NoLayout
    /\ UNCHANGED <<docs, edits, lastSaved, webview, svg, gestures, notice, calc, editor>>

\* analyzeWorkspace: every file is analyzed, the analyses are merged
AnalyzeWorkspace ==
    LET files == SubSeq(docs, 1, Min(Len(docs), MaxWorkspaceFiles))
    IN  IF allOpen(files)
        THEN /\ analysis' = mergeAnalyses([i \in 1..Len(files) |->
                                               analyzeDocument(files[i])])
             /\ hier' = NoLayout
             /\ notice' = AnalyzedFiles(Len(docs))
             /\ UNCHANGED <<docs, edits, lastSaved, webview, svg, gestures, calc, editor>>
        ELSE /\ notice' = AnalyzingWorkspace
             /\ UNCHANGED <<docs, analysis, edits, lastSaved, hier, webview,
                            svg, gestures, calc, editor>>

\* the callees of the call sites the user adds: the hub and one of its spokes
SavedCallees == {<<HubName>>, <<SpokePool[1]>>}

\* the user adds a call of callee to the d-th function of document i and
\* saves it; saveListener re-analyzes the document when a visualizer exists
SaveDocument(i, d, callee) ==
    /\ edits < MaxEdits
    /\ analysis # NoAnalysis
    /\ callee # docs[i].decls[d].name
    /\ ~Includes(docs[i].decls[d].sites, callee)
    /\ docs' = [docs EXCEPT ![i].decls[d].sites = Append(@, callee)]
    /\ analysis' = analyzeDocument(docs'[i])
    /\ edits' = edits + 1
    /\ lastSaved' = [doc |-> i, decl |-> d, callee |-> callee]
    /\ hier' = NoLayout
    /\ UNCHANGED <<webview, svg, gestures, notice, calc, editor>>

\* the hierarchical layout of the displayed graph on a canvas, computed
\* once per displayed graph
HierarchicalLayout(canvas) ==
    /\ analysis.functions # <<>>
    /\ hier = NoLayout
    /\ hier' = calculateHierarchicalLayout(analysis.functions,
                                           canvas[1], canvas[2])
    /\ UNCHANGED <<docs, analysis, edits, lastSaved, webview, svg, gestures, notice, calc, editor>>

\* a session on documents that are not edited
Next ==
    \/ \E i \in 1..Len(docs) : AnalyzeCurrentFile(i)
    \/ AnalyzeWorkspace
    \/ \E canvas \in CanvasSizes : HierarchicalLayout(canvas)

\* a session in which the user edits and saves, in the default layout
NextSave ==
    \/ \E i \in 1..Len(docs) : AnalyzeCurrentFile(i)
    \/ \E i \in 1..Len(docs) : \E d \in 1..Len(docs[i].decls) :
           \E callee \in SavedCallees : SaveDocument(i, d, callee)

\* a workspace of up to three files
Spec == Init /\ [][Next]_vars

\* one file: a hub and its spokes, a few functions with arbitrary calls, or
\* a call chain next to isolated functions
SpecScore == InitScore /\ [][Next]_vars

\* the hub file, edited and saved
SpecSave == InitHub /\ [][NextSave]_vars

----------------------------------------------------------------------------
(* The panel: data arriving in the webview, and the user's gestures *)

ViewCanvasSizes == {<<1300, 700>>}

\* where a drag may drop a node
DragTargets == {[x |-> 333, y |-> 222]}

\* the analyzer of an earlier revision: the same records, not scored
withoutSignificance(a) ==
    [a EXCEPT !.functions =
        [i \in 1..Len(a.functions) |->
            [k \in DOMAIN a.functions[i] \ {"significance"} |->
                a.functions[i][k]]]]

\* the listener of the script: currentData = message.data, then a render
updateData(data, canvas) ==
    renderVisualization([webview EXCEPT !.currentData = data], svg,
                        canvas[1], canvas[2])

\* analyzeCurrentFile, then updateVisualization: the analysis is posted to
\* the script
UpdateVisualizationOfFile(i, canvas) ==
    LET data == analyzeDocument(docs[i])
    IN  /\ docs[i].opens
        /\ analysis' = data
        /\ \E r \in updateData(data, canvas) : webview' = r.w /\ svg' = r.svg
        /\ UNCHANGED <<docs, edits, lastSaved, hier, gestures, notice, calc, editor>>

\* analyzeWorkspace, then updateVisualization
UpdateVisualizationOfWorkspace(canvas) ==
    LET files == SubSeq(docs, 1, Min(Len(docs), MaxWorkspaceFiles))
        data == mergeAnalyses([i \in 1..Len(files) |-> analyzeDocument(files[i])])
    IN  IF allOpen(files)
        THEN /\ analysis' = data
             /\ \E r \in updateData(data, canvas) : webview' = r.w /\ svg' = r.svg
             /\ notice' = AnalyzedFiles(Len(docs))
             /\ UNCHANGED <<docs, edits, lastSaved, hier, gestures, calc, editor>>
        ELSE /\ notice' = AnalyzingWorkspace
             /\ UNCHANGED <<docs, analysis, edits, lastSaved, hier, webview,
                            svg, gestures, calc, editor>>

\* an analysis whose records carry no significance is posted to the script
UpdateVisualizationUnscored(i, canvas) ==
    LET data == withoutSignificance(analyzeDocument(docs[i]))
    IN  /\ docs[i].opens
        /\ analysis' = data
        /\ \E r \in updateData(data, canvas) : webview' = r.w /\ svg' = r.svg
        /\ UNCHANGED <<docs, edits, lastSaved, hier, gestures, notice, calc, editor>>

\* the end of a zoom handler: a render when the scale crossed
\* ZOOM_THRESHOLD in one of the given directions, then the description
zoomTo(newScale, upward, downward, canvas) ==
    LET zoomed == [webview EXCEPT !.scale = newScale]
        crossed == /\ webview.isWorkspaceMode
                   /\ webview.currentLayout = "force"
                   /\ webview.expandedFiles = {}
                   /\ \/ /\ upward
                         /\ webview.scale <= ZOOM_THRESHOLD
                         /\ newScale > ZOOM_THRESHOLD
                      \/ /\ downward
                         /\ webview.scale > ZOOM_THRESHOLD
                         /\ newScale <= ZOOM_THRESHOLD
    IN  {[w   |-> r.w,
          svg |-> [r.svg EXCEPT !.description = updateLayoutDescription(r.w)]] :
         r \in IF crossed
               THEN renderVisualization(zoomed, svg, canvas[1], canvas[2])
               ELSE {[w |-> zoomed, svg |-> svg]}}

\* zoomIn: scale * 1.2
ZoomIn(canvas) ==
    /\ gestures.zooms < MaxZooms
    /\ \E z \in zoomTo((webview.scale * 12) \div 10, TRUE, FALSE, canvas) :
           webview' = z.w /\ svg' = z.svg
    /\ gestures' = [gestures EXCEPT !.zooms = @ + 1]
    /\ UNCHANGED <<docs, analysis, edits, lastSaved, hier, notice, calc, editor>>

\* zoomOut: scale * 0.8
ZoomOut(canvas) ==
    /\ gestures.zooms < MaxZooms
    /\ \E z \in zoomTo((webview.scale * 8) \div 10, FALSE, TRUE, canvas) :
           webview' = z.w /\ svg' = z.svg
    /\ gestures' = [gestures EXCEPT !.zooms = @ + 1]
    /\ UNCHANGED <<docs, analysis, edits, lastSaved, hier, notice, calc, editor>>

\* Math.min(rect.width * 0.7 / bounds.width, rect.height * 0.7 / bounds.height, 3)
targetScaleOf(block, canvas) ==
    Min(Min((700 * canvas[1]) \div block.width,
            (700 * canvas[2]) \div block.height), 3000)

\* a click on the block of a file: zoomToFile, whose animation ends at
\* targetScale and with a render
ZoomToFile(block, canvas) ==
    /\ block \in svg.blocks
    /\ \E r \in renderVisualization(
                    [webview EXCEPT !.expandedFiles = {block.fileName},
                                    !.scale = targetScaleOf(block, canvas)],
                    svg, canvas[1], canvas[2]) :
           webview' = r.w /\ svg' = r.svg
    /\ UNCHANGED <<docs, analysis, edits, lastSaved, hier, gestures, notice, calc, editor>>

\* a node is dragged and dropped: its stored position and its circle move
DragNode(i, p) ==
    /\ gestures.drags < MaxDrags
    /\ i \in svg.nodes
    /\ webview' = [webview EXCEPT !.nodePositions[i] = p]
    /\ svg' = [svg EXCEPT !.at[i] = p]
    /\ gestures' = [gestures EXCEPT !.drags = @ + 1]
    /\ UNCHANGED <<docs, analysis, edits, lastSaved, hier, notice, calc, editor>>

\* resetView
ResetView(canvas) ==
    /\ \E r \in renderVisualization(
                    [webview EXCEPT !.scale = 1000, !.expandedFiles = {},
                                    !.nodePositions = <<>>],
                    svg, canvas[1], canvas[2]) :
           webview' = r.w /\ svg' = r.svg
    /\ UNCHANGED <<docs, analysis, edits, lastSaved, hier, gestures, notice, calc, editor>>

\* toggleLayout
ToggleLayout(canvas) ==
    /\ \E r \in renderVisualization(
                    [webview EXCEPT
                        !.currentLayout = IF @ = "force" THEN "hierarchical"
                                          ELSE "force",
                        !.expandedFiles = {},
                        !.nodePositions = <<>>],
                    svg, canvas[1], canvas[2]) :
           webview' = r.w /\ svg' = r.svg
    /\ UNCHANGED <<docs, analysis, edits, lastSaved, hier, gestures, notice, calc, editor>>

\* a session in the panel, with the buttons and the blocks
NextView ==
    \/ \E i \in 1..Len(docs) : \E canvas \in ViewCanvasSizes :
           UpdateVisualizationOfFile(i, canvas)
    \/ \E canvas \in ViewCanvasSizes : UpdateVisualizationOfWorkspace(canvas)
    \/ \E canvas \in ViewCanvasSizes : ZoomIn(canvas)
    \/ \E canvas \in ViewCanvasSizes : ZoomOut(canvas)
    \/ \E block \in svg.blocks : \E canvas \in ViewCanvasSizes :
           ZoomToFile(block, canvas)
    \/ \E canvas \in ViewCanvasSizes : ResetView(canvas)
    \/ \E canvas \in ViewCanvasSizes : ToggleLayout(canvas)

\* a session in which the user also drags nodes
NextDrag ==
    \/ \E canvas \in ViewCanvasSizes : UpdateVisualizationOfWorkspace(canvas)
    \/ \E canvas \in ViewCanvasSizes : ZoomIn(canvas)
    \/ \E canvas \in ViewCanvasSizes : ZoomOut(canvas)
    \/ \E block \in svg.blocks : \E canvas \in ViewCanvasSizes :
           ZoomToFile(block, canvas)
    \/ \E i \in svg.nodes : \E p \in DragTargets : DragNode(i, p)
    \/ \E canvas \in ViewCanvasSizes : ResetView(canvas)
    \/ \E canvas \in ViewCanvasSizes : ToggleLayout(canvas)

\* a session in which the user changes the layout only
NextLevels ==
    \/ \E i \in 1..Len(docs) : \E canvas \in ViewCanvasSizes :
           UpdateVisualizationOfFile(i, canvas)
    \/ \E canvas \in ViewCanvasSizes : UpdateVisualizationOfWorkspace(canvas)
    \/ \E canvas \in ViewCanvasSizes : ResetView(canvas)
    \/ \E canvas \in ViewCanvasSizes : ToggleLayout(canvas)

\* a session in the panel of an analyzer that does not score
NextUnscored ==
    \/ \E i \in 1..Len(docs) : \E canvas \in ViewCanvasSizes :
           UpdateVisualizationUnscored(i, canvas)
    \/ \E canvas \in ViewCanvasSizes : ZoomIn(canvas)
    \/ \E canvas \in ViewCanvasSizes : ZoomOut(canvas)
    \/ \E block \in svg.blocks : \E canvas \in ViewCanvasSizes :
           ZoomToFile(block, canvas)
    \/ \E canvas \in ViewCanvasSizes : ToggleLayout(canvas)

\* a declaration of a file of the panel's workspaces
ViewDecl(name, callees) == FunctionDecl(<<name>>, MapSeq(callees, Token))

\* two files of one label that declare f, each calling into the other
CollidingFiles ==
    << SoundFile(ax, <<ViewDecl("f", <<>>), ViewDecl("g", <<"f">>)>>, <<>>),
       SoundFile(bx, <<ViewDecl("f", <<"g">>)>>, <<>>) >>

\* a file with a call chain and an isolated function, a file with one call
ChainAndPairFiles ==
    << SoundFile(az, <<ViewDecl("v0", <<"v1">>), ViewDecl("v1", <<"v2">>),
                       ViewDecl("v2", <<>>), ViewDecl("i1", <<>>)>>, <<>>),
       SoundFile(ay, <<ViewDecl("f", <<"g">>), ViewDecl("g", <<>>)>>, <<>>) >>

InitView ==
    /\ docs = CollidingFiles
    /\ analysis = NoAnalysis
    /\ edits = 0
    /\ lastSaved = NoSave
    /\ hier = NoLayout
    /\ PanelLoaded
    /\ notice = NoNotice
    /\ calc = NoCall
    /\ editor = EditorIdle

InitLevels ==
    /\ \/ docs = ChainAndPairFiles
       \/ \E callee \in [Range(SubSeq(NodePool, 1, MaxNodes)) ->
                             Range(SubSeq(NodePool, 1, MaxNodes))] :
             docs = <<GraphDoc([n \in DOMAIN callee |-> {callee[n]} \ {n}])>>
    /\ analysis = NoAnalysis
    /\ edits = 0
    /\ lastSaved = NoSave
    /\ hier = NoLayout
    /\ PanelLoaded
    /\ notice = NoNotice
    /\ calc = NoCall
    /\ editor = EditorIdle

\* the panel on two files of one label
SpecView == InitView /\ [][NextView]_vars

\* the layouts of a call chain and a single call, or of a few functions
\* that call one function each, or none
SpecLevels == InitLevels /\ [][NextLevels]_vars

\* the panel while nodes are dragged
SpecDrag == InitView /\ [][NextDrag]_vars

\* the panel fed by an analyzer that does not score
SpecUnscored == InitView /\ [][NextUnscored]_vars

\* the nodes, other than calls, met in the bodies of the failing file
BodyNodes ==
    { [type |-> "if_statement", operator |-> ""],
      [type |-> "binary_expression", operator |-> "&&"],
      [type |-> "binary_expression", operator |-> "+"] }

Bodies == UNION {[1..n -> BodyNodes] : n \in 0..MaxBody}

\* the node types of the declarations of the failing file
DeclForms == {"function_declaration", "method_definition", "arrow_function"}

\* a/x.ts declares f, which calls g, and g; a/y.ts declares h, which
\* calls f.  a/x.ts may be in a language mode without grammar, may not
\* open, and the grammar pass may throw at one of its declarations
FailingFiles(language, opens, throwsAt, form, body, exported) ==
    << [fileName |-> ax,
        language |-> language,
        opens    |-> opens,
        throwsAt |-> throwsAt,
        decls    |-> << [name |-> <<"f">>, form |-> form,
                         sites |-> << <<"g">> >>, nodes |-> body],
                        FunctionDecl(<<"g">>, <<>>) >>,
        exports  |-> IF exported THEN << <<"f">> >> ELSE <<>>],
       SoundFile(ay, <<FunctionDecl(<<"h">>, << <<"f">> >>)>>, <<>>) >>

InitFailing ==
    /\ \E language \in {"typescript", "plaintext"} :
       \E opens \in BOOLEAN :
       \E throwsAt \in 0..2 :
       \E form \in DeclForms :
       \E body \in Bodies :
       \E exported \in BOOLEAN :
          /\ language = "plaintext" => throwsAt = 0
          /\ exported => form = "function_declaration"
          /\ docs = FailingFiles(language, opens, throwsAt, form, body, exported)
    /\ analysis = NoAnalysis
    /\ edits = 0
    /\ lastSaved = NoSave
    /\ hier = NoLayout
    /\ PanelLoaded
    /\ notice = NoNotice
    /\ calc = NoCall
    /\ editor = EditorIdle

\* the two commands that analyze
NextCommands ==
    \/ \E i \in 1..Len(docs) : \E canvas \in ViewCanvasSizes :
           UpdateVisualizationOfFile(i, canvas)
    \/ \E canvas \in ViewCanvasSizes : UpdateVisualizationOfWorkspace(canvas)

\* the commands on a workspace with a file that may fail
SpecFailing == InitFailing /\ [][NextCommands]_vars
----------------------------------------------------------------------------
(* Complexity bands: label-utilities and the node colouring of the panel *)

\* everything but calc is as the extension starts, on the given documents
QuietOn(files) ==
    /\ docs = files
    /\ analysis = NoAnalysis
    /\ edits = 0
    /\ lastSaved = NoSave
    /\ hier = NoLayout
    /\ PanelLoaded
    /\ notice = NoNotice
    /\ editor = EditorIdle

\* calc changes alone
OnlyCalc ==
    UNCHANGED <<docs, analysis, edits, lastSaved, hier, webview, svg, gestures,
                notice, editor>>

getComplexityColorInclusive(complexity) ==
    IF complexity <= 3 THEN "#10b981"
    ELSE IF complexity < 7 THEN "#f59e0b"
    ELSE "#ef4444"

getComplexityColor(complexity) ==
    IF complexity < 3 THEN "#10b981"
    ELSE IF complexity < 7 THEN "#f59e0b"
    ELSE "#ef4444"

getComplexityLabel(complexity) ==
    IF complexity < 3 THEN "Low"
    ELSE IF complexity < 7 THEN "Medium"
    ELSE "High"

\* the fill of a node's circle in renderDetailedView and renderStandardView
circleFill(complexity) ==
    IF complexity < 3 THEN "#4CAF50"
    ELSE IF complexity < 7 THEN "#FFC107"
    ELSE "#FF5722"

InitBands ==
    /\ QuietOn(<<>>)
    /\ \E complexity \in 0..MaxComplexity :
          calc = [fn |-> "complexity", arg |-> complexity, result |-> <<>>]

\* the label, the colour and the fill of the complexity
Band ==
    /\ calc.fn = "complexity"
    /\ calc.result = <<>>
    /\ calc' = [calc EXCEPT !.result =
                   [color |-> getComplexityColor(calc.arg),
                    label |-> getComplexityLabel(calc.arg),
                    fill  |-> circleFill(calc.arg)]]
    /\ OnlyCalc

NextBands == Band

\* the bands of the complexities up to MaxComplexity
SpecBands == InitBands /\ [][NextBands]_vars

----------------------------------------------------------------------------
(* The force layout as a function of the graph and of the canvas *)

\* widths and heights of the canvases given to the layouts, a panel
\* squeezed to a strip among them
LayoutCanvasSizes == {40, 160, 900} \X {40, 160, 540}

\* the functions of a file in which each function calls one function or none
SingleCalleeGraphs ==
    {analyzeDocument(GraphDoc([n \in DOMAIN callee |-> {callee[n]} \ {n}])).functions :
        callee \in [Range(SubSeq(NodePool, 1, MaxNodes)) ->
                       Range(SubSeq(NodePool, 1, MaxNodes))]}

InitForce ==
    /\ QuietOn(<<>>)
    /\ \E functions \in SingleCalleeGraphs : \E canvas \in LayoutCanvasSizes :
          calc = [fn     |-> "calculateForceLayout",
                  arg    |-> [functions |-> functions,
                              width |-> canvas[1], height |-> canvas[2]],
                  result |-> <<>>]

\* calculateForceLayout(functions, width, height), from one random start
ForceLayout(seed) ==
    /\ calc.fn = "calculateForceLayout"
    /\ calc.result = <<>>
    /\ calc' = [calc EXCEPT !.result =
                   calculateForceLayout(calc.arg.functions, calc.arg.width,
                                        calc.arg.height, seed)]
    /\ OnlyCalc

NextForce == \E seed \in Seeds : ForceLayout(seed)

\* the force layout of small graphs on canvases of several sizes
SpecForce == InitForce /\ [][NextForce]_vars

----------------------------------------------------------------------------
(* Call cycles next to call chains *)

\* one file of five functions that call one function each, or none: call
\* chains, hubs and call cycles, in one component or in several
InitCycle ==
    /\ \E callee \in [Range(NodePool) -> Range(NodePool)] :
          docs = <<GraphDocOn(NodePool, [n \in DOMAIN callee |-> {callee[n]} \ {n}])>>
    /\ analysis = NoAnalysis
    /\ edits = 0
    /\ lastSaved = NoSave
    /\ hier = NoLayout
    /\ PanelLoaded
    /\ notice = NoNotice
    /\ calc = NoCall
    /\ editor = EditorIdle

SpecCycle == InitCycle /\ [][Next]_vars

----------------------------------------------------------------------------
(* The clustered layout as a function of the graph and of the canvas *)

ClusterFiles == <<ax, ay, az, bx>>

\* workspaces of one to four files of one or two functions each, the
\* second function calling the first
ClusteredGraphs ==
    {mergeAnalyses([k \in 1..Len(count) |->
         analyzeDocument(SoundFile(ClusterFiles[k],
             IF count[k] = 1 THEN <<ViewDecl("f", <<>>)>>
             ELSE <<ViewDecl("f", <<>>), ViewDecl("g", <<"f">>)>>,
             <<>>))]).functions :
        count \in UNION {[1..n -> {1, 2}] : n \in 1..Len(ClusterFiles)}}

InitClusters ==
    /\ QuietOn(<<>>)
    /\ \E functions \in ClusteredGraphs : \E canvas \in LayoutCanvasSizes :
          calc = [fn     |-> "calculateClusteredLayout",
                  arg    |-> [functions |-> functions,
                              width |-> canvas[1], height |-> canvas[2]],
                  result |-> <<>>]

\* calculateClusteredLayout(functions, width, height), from one random start
ClusteredLayout(seed) ==
    /\ calc.fn = "calculateClusteredLayout"
    /\ calc.result = <<>>
    /\ calc' = [calc EXCEPT !.result =
                   calculateClusteredLayout(calc.arg.functions, calc.arg.width,
                                            calc.arg.height, seed).positions]
    /\ OnlyCalc

NextClusters == \E seed \in Seeds \cup {CentredStart} : ClusteredLayout(seed)

\* the clustered layout of small workspaces on canvases of several sizes
SpecClusters == InitClusters /\ [][NextClusters]_vars

----------------------------------------------------------------------------
(* Hovering a node: navigation and line highlight *)

MaxHovers == 2

CouldNotOpenFile == [text |-> "Could not open file: ${fileName}", files |-> 0]

\* the document of the file of the k-th function of the held graph
DocOf(k) ==
    CHOOSE i \in 1..Len(docs) :
        docs[i].fileName = webview.currentData.functions[k].fileName

\* _clearHighlight: the current decoration, if any, is disposed
clearHighlight(e) ==
    [e EXCEPT !.decorations = @ \ {e.current}, !.current = 0]

\* the end of _navigateToFunction: the previous highlight is cleared, a
\* decoration is created, stored in _currentDecoration and set on the line
highlightLine(e) ==
    LET cleared == clearHighlight(e)
    IN  [cleared EXCEPT !.created = e.created + 1,
                        !.current = e.created + 1,
                        !.decorations = @ \cup {e.created + 1}]

\* mouseenter on node k, not dragging, autoNavigate on: navigateToFunction
\* is posted to the extension
MouseEnter(k) ==
    /\ k \in svg.nodes
    /\ editor.pointer = 0
    /\ editor.hovers < MaxHovers
    /\ editor' = [editor EXCEPT
           !.pointer = k,
           !.hovers = @ + 1,
           !.inbox = Append(@, [command |-> "navigateToFunction",
                                file |-> DocOf(k), hover |-> editor.hovers + 1])]
    /\ UNCHANGED <<docs, analysis, edits, lastSaved, hier, webview, svg,
                   gestures, notice, calc>>

\* mouseleave: clearHighlight is posted
MouseLeave ==
    /\ editor.pointer # 0
    /\ editor' = [editor EXCEPT
           !.pointer = 0,
           !.inbox = Append(@, [command |-> "clearHighlight",
                                file |-> 0, hover |-> editor.hovers])]
    /\ UNCHANGED <<docs, analysis, edits, lastSaved, hier, webview, svg,
                   gestures, notice, calc>>

\* onDidReceiveMessage on the oldest message: clearHighlight clears;
\* navigateToFunction is called and not awaited: it highlights at once in
\* the active file, and suspends on openTextDocument for another file
ReceiveMessage ==
    /\ editor.inbox # <<>>
    /\ LET message == Head(editor.inbox)
           taken   == [editor EXCEPT !.inbox = Tail(@)]
       IN  editor' =
               IF message.command = "clearHighlight" THEN clearHighlight(taken)
               ELSE IF message.file # editor.active
               THEN [taken EXCEPT !.navigating =
                        @ \cup {[file |-> message.file, hover |-> message.hover]}]
               ELSE highlightLine(taken)
    /\ UNCHANGED <<docs, analysis, edits, lastSaved, hier, webview, svg,
                   gestures, notice, calc>>

\* openTextDocument and showTextDocument settle for a suspended
\* navigation: the file becomes the active one and the line is
\* highlighted, or the open fails and the navigation ends with an error
ResumeNavigation(n) ==
    /\ n \in editor.navigating
    /\ LET resumed == [editor EXCEPT !.navigating = @ \ {n}]
       IN  IF docs[n.file].opens
           THEN /\ editor' = highlightLine([resumed EXCEPT !.active = n.file])
                /\ UNCHANGED notice
           ELSE /\ editor' = resumed
                /\ notice' = CouldNotOpenFile
    /\ UNCHANGED <<docs, analysis, edits, lastSaved, hier, webview, svg,
                   gestures, calc>>

\* the panel on a workspace whose nodes the pointer enters and leaves
NextHover ==
    \/ \E canvas \in ViewCanvasSizes : UpdateVisualizationOfWorkspace(canvas)
    \/ \E block \in svg.blocks : \E canvas \in ViewCanvasSizes :
           ZoomToFile(block, canvas)
    \/ \E k \in svg.nodes : MouseEnter(k)
    \/ MouseLeave
    \/ ReceiveMessage
    \/ \E n \in editor.navigating : ResumeNavigation(n)

SpecHover == InitView /\ [][NextHover]_vars

----------------------------------------------------------------------------
(* Vocabulary of the properties *)

fns == analysis.functions

IsMerged == analysis.fileName = WorkspaceAnalysis

IsFileGraph == analysis # NoAnalysis /\ ~IsMerged

Keys == {fns[k].name : k \in 1..Len(fns)}

Declares(i, n) == \E d \in 1..Len(docs[i].decls) : docs[i].decls[d].name = n

LabelOf(i) == Last(docs[i].fileName)

\* the callers a function has by the calls of the graph
CallersByCalls(b) == {a \in 1..Len(fns) : Includes(fns[a].calls, fns[b].name)}

\* the index of the document a merged record stems from
OriginOf(k) == CHOOSE i \in 1..Len(docs) : docs[i].fileName = fns[k].fileName

\* the index of the merged record of function n of document i, 0 if the
\* merged graph holds no record that stems from that declaration
RecordOf(i, n) ==
    IF \E k \in 1..Len(fns) :
           fns[k].displayName = n /\ fns[k].fileName = docs[i].fileName
    THEN CHOOSE k \in 1..Len(fns) :
           fns[k].displayName = n /\ fns[k].fileName = docs[i].fileName
    ELSE 0

\* the key a raw callee name has to become in a function of a file with
\* the given label
Resolved(calledName, label) ==
    LET sameFile == calledName \o <<"::">> \o <<label>>
        named    == {k \in 1..Len(fns) : fns[k].displayName = calledName}
    IN  IF sameFile \in Keys THEN sameFile
        ELSE IF named # {}
             THEN fns[CHOOSE k \in named : \A q \in named : k <= q].name
             ELSE calledName

\* the declaration of n in document i
DeclOf(i, n) ==
    docs[i].decls[CHOOSE d \in 1..Len(docs[i].decls) : docs[i].decls[d].name = n]

----------------------------------------------------------------------------
\* C1: in every graph returned by analyzeDocument or mergeAnalyses, calledBy
\* is the inverse of the resolved calls: B.calledBy contains A's key iff
\* A.calls contains B's key, and B.calledBy holds keys of the graph only.
CallersAreInverseOfCalls ==
    \A b \in 1..Len(fns) :
        /\ \A a \in 1..Len(fns) :
              Includes(fns[b].calledBy, fns[a].name)
                  <=> Includes(fns[a].calls, fns[b].name)
        /\ Range(fns[b].calledBy) \subseteq Keys

\* a merged graph in which a function is called from another file
CrossFileCallerMerged ==
    /\ IsMerged
    /\ \E a, b \in 1..Len(fns) :
          /\ Includes(fns[b].calledBy, fns[a].name)
          /\ fns[a].fileName # fns[b].fileName

----------------------------------------------------------------------------
DeclaredNames ==
    UNION {{docs[i].decls[d].name : d \in 1..Len(docs[i].decls)} :
              i \in 1..Len(docs)}

UniqueLabel(i) == \A k \in 1..Len(docs) : k # i => LabelOf(k) # LabelOf(i)

\* documents i and j both hold a record of n, under two keys, and every
\* call of n made in document i is among the callers of i's n only
OwnKeyAndCallers(i, j, n) ==
    LET p == RecordOf(i, n)
        q == RecordOf(j, n)
    IN  /\ p # 0 /\ q # 0
        /\ fns[p].name # fns[q].name
        /\ \A d \in 1..Len(docs[i].decls) :
              Includes(docs[i].decls[d].sites, n) =>
                  LET r == RecordOf(i, docs[i].decls[d].name)
                  IN  /\ r # 0
                      /\ Includes(fns[p].calledBy, fns[r].name)
                      /\ ~Includes(fns[q].calledBy, fns[r].name)

\* C2 as stated: mergeAnalyses gives two same-named functions of two
\* different files two distinct keys, each with its own callers.
SameNameAnyTwoFiles ==
    IsMerged =>
        \A i, j \in 1..Len(docs) : \A n \in DeclaredNames :
            (i # j /\ Declares(i, n) /\ Declares(j, n))
                => OwnKeyAndCallers(i, j, n)

\* what holds of the code: it does so for two files whose file label (last
\* path segment) no other merged file has.
SameNameDistinctLabels ==
    IsMerged =>
        \A i, j \in 1..Len(docs) : \A n \in DeclaredNames :
            (i # j /\ Declares(i, n) /\ Declares(j, n)
                   /\ UniqueLabel(i) /\ UniqueLabel(j))
                => OwnKeyAndCallers(i, j, n)

\* a merge of two files with labels of their own that both declare n, one
\* of them calling its n
SameNameCalledInOneFile ==
    /\ IsMerged
    /\ \E i, j \in 1..Len(docs) : \E n \in DeclaredNames :
          /\ i # j /\ Declares(i, n) /\ Declares(j, n)
          /\ UniqueLabel(i) /\ UniqueLabel(j)
          /\ \E d \in 1..Len(docs[i].decls) : Includes(docs[i].decls[d].sites, n)

\* every surviving record holds the calls of its declaration, each rewritten
\* to the same-label key if there is one, else to the first key of a
\* function of that local name, else left raw
CallsRewrittenByRule ==
    \A k \in 1..Len(fns) :
        LET i     == OriginOf(k)
            sites == DeclOf(i, fns[k].displayName).sites
        IN  fns[k].calls =
                [c \in 1..Len(sites) |-> Resolved(sites[c], LabelOf(i))]

\* the calls of merged records that are bound to a record of another file
BoundAcrossFiles ==
    {e \in UNION {{<<k, c>> : c \in 1..Len(fns[k].calls)} : k \in 1..Len(fns)} :
        /\ FindIndex(fns, fns[e[1]].calls[e[2]]) # 0
        /\ fns[FindIndex(fns, fns[e[1]].calls[e[2]])].fileName
               # fns[e[1]].fileName}

CalleeNameOf(k, c) == DeclOf(OriginOf(k), fns[k].displayName).sites[c]

\* C3 as stated: the rewrite rule, and a call is bound to another file's
\* function only when the caller's own file declares no function of that
\* name.
RewriteRuleOwnFileFirst ==
    IsMerged =>
        /\ CallsRewrittenByRule
        /\ \A e \in BoundAcrossFiles :
              ~Declares(OriginOf(e[1]), CalleeNameOf(e[1], e[2]))

\* what holds of the code: the rewrite rule, and a call is bound to another
\* file's function only when the caller's own file declares no function of
\* that name or another file with the same file label declares one too.
RewriteRuleOwnLabelFirst ==
    IsMerged =>
        /\ CallsRewrittenByRule
        /\ \A e \in BoundAcrossFiles :
              \/ ~Declares(OriginOf(e[1]), CalleeNameOf(e[1], e[2]))
              \/ \E j \in 1..Len(docs) :
                    /\ j # OriginOf(e[1])
                    /\ LabelOf(j) = LabelOf(OriginOf(e[1]))
                    /\ Declares(j, CalleeNameOf(e[1], e[2]))

\* a call bound to the first of two functions of other files, and the
\* overwritten case: a call bound to a same-label file's function
FirstOfTwoCandidatesBound ==
    /\ IsMerged
    /\ \E e \in BoundAcrossFiles :
          /\ ~Declares(OriginOf(e[1]), CalleeNameOf(e[1], e[2]))
          /\ Cardinality({k \in 1..Len(fns) :
                 fns[k].displayName = CalleeNameOf(e[1], e[2])}) = 2
          /\ uniqueKey(CalleeNameOf(e[1], e[2]),
                       fileLabel(fns[e[1]].fileName)) \notin Keys

\* C4: merging K analyses with pairwise disjoint function names and M
\* functions each yields exactly K*M functions under distinct keys.
DisjointNames ==
    \A i, j \in 1..Len(docs) : \A n \in DeclaredNames :
        i # j => ~(Declares(i, n) /\ Declares(j, n))

LaterOf(i, n) ==
    CHOOSE j \in 1..Len(docs) :
        /\ LabelOf(j) = LabelOf(i) /\ Declares(j, n)
        /\ \A q \in 1..Len(docs) :
              (LabelOf(q) = LabelOf(i) /\ Declares(q, n)) => q <= j

\* C5: when two analyses produce the same (name, label) pair, the merged
\* graph holds one record under that key, it is the record of the analysis
\* processed later, and its calls are the rewritten calls of that record.
CollisionKeepsLater ==
    IsMerged =>
        \A i, j \in 1..Len(docs) : \A n \in DeclaredNames :
            (i < j /\ LabelOf(i) = LabelOf(j) /\ Declares(i, n) /\ Declares(j, n))
            => LET key  == n \o <<"::">> \o <<LabelOf(i)>>
                   recs == {k \in 1..Len(fns) : fns[k].name = key}
                   late == LaterOf(i, n)
               IN  /\ Cardinality(recs) = 1
                   /\ \A k \in recs :
                         /\ fns[k].fileName = docs[late].fileName
                         /\ fns[k].calls =
                               [c \in 1..Len(DeclOf(late, n).sites) |->
                                   Resolved(DeclOf(late, n).sites[c], LabelOf(late))]

\* a merge in which the overwritten record had a call the later one has not
CollisionWithLostCall ==
    /\ IsMerged
    /\ \E i, j \in 1..Len(docs) : \E n \in DeclaredNames :
          /\ i < j /\ LabelOf(i) = LabelOf(j)
          /\ Declares(i, n) /\ Declares(j, n)
          /\ DeclOf(i, n).sites # <<>>
          /\ DeclOf(j, n).sites = <<>>

----------------------------------------------------------------------------
(* The scorer *)

Clamp(lo, hi, v) == IF v < lo THEN lo ELSE IF v > hi THEN hi ELSE v

Exported(b) == Includes(analysis.exports, fns[b].name)

NumCallers(b) == Cardinality(CallersByCalls(b))

NumCalls(b) == Cardinality(Range(fns[b].calls))

\* the callees of b that are functions of the graph and are called
CalledCalleesOf(b) ==
    {n \in Range(fns[b].calls) :
        \E t \in 1..Len(fns) : fns[t].name = n /\ CallersByCalls(t) # {}}

\* C6: every function of a returned graph has a significance that is an
\* integer in 0..100.
SignificanceInRange ==
    \A b \in 1..Len(fns) : fns[b].significance \in 0..100

\* an exported entry point, whose unclamped score is above 100
ExportedEntryPointScored ==
    \E b \in 1..Len(fns) :
        Exported(b) /\ NumCallers(b) = 0 /\ fns[b].significance = 100

\* C7: the significance of every function is clamp(0, 100, 50 + 40 [no
\* callers] + min(8*callers, 30) [callers > 0] + min(2*calls, 10) [calls > 3]
\* - 20 [callers > 3] - 15 [calls > 0, callers > 0, more than 2 called
\* callees in the graph] + 20 [name in the export list]).
SignificanceFormula ==
    \A b \in 1..Len(fns) :
        fns[b].significance =
            Clamp(0, 100,
                50
                + (IF NumCallers(b) = 0 THEN 40 ELSE 0)
                + (IF NumCallers(b) > 0
                   THEN (IF 8 * NumCallers(b) < 30 THEN 8 * NumCallers(b) ELSE 30)
                   ELSE 0)
                + (IF NumCalls(b) > 3
                   THEN (IF 2 * NumCalls(b) < 10 THEN 2 * NumCalls(b) ELSE 10)
                   ELSE 0)
                - (IF NumCallers(b) > 3 THEN 20 ELSE 0)
                - (IF /\ NumCalls(b) > 0
                      /\ NumCallers(b) > 0
                      /\ Cardinality(CalledCalleesOf(b)) > 2
                   THEN 15 ELSE 0)
                + (IF Exported(b) THEN 20 ELSE 0))

\* a function with more than 3 callers and more than 3 calls, deep in a
\* chain and exported: every term but the first applies
HeavilyUsedCoordinatorScored ==
    \E b \in 1..Len(fns) :
        /\ NumCallers(b) > 3 /\ NumCalls(b) > 3
        /\ Cardinality(CalledCalleesOf(b)) > 2
        /\ Exported(b)
        /\ fns[b].significance = 75

\* the saved edit gave function b of the displayed file its first caller
\* and left its calls, the exports and every other function's calls alone
FirstCallerAdded(b) ==
    /\ IsFileGraph
    /\ analysis'.fileName = analysis.fileName
    /\ analysis'.exports = analysis.exports
    /\ Len(analysis'.functions) = Len(fns)
    /\ b \in 1..Len(fns)
    /\ \A k \in 1..Len(fns) : analysis'.functions[k].name = fns[k].name
    /\ analysis'.functions[b].calls = fns[b].calls
    /\ fns[b].calledBy = <<>>
    /\ Len(analysis'.functions[b].calledBy) = 1
    /\ Cardinality({k \in 1..Len(fns) :
           analysis'.functions[k].calls # fns[k].calls}) = 1

\* C8 as stated: raising a function's caller count from 0 to 1, all else
\* fixed, strictly increases its significance.
FirstCallerRaisesSignificance ==
    [][\A b \in 1..Len(fns) : FirstCallerAdded(b) =>
          analysis'.functions[b].significance > fns[b].significance]_vars

\* C8 amended: raising a function's caller count from 0 to 1, all else
\* fixed, strictly decreases its significance.
FirstCallerLowersSignificance ==
    [][\A b \in 1..Len(fns) : FirstCallerAdded(b) =>
          analysis'.functions[b].significance < fns[b].significance]_vars

\* the displayed file after a save that added the only call of a function
\* that calls more than 3 functions itself
FirstCallerJustAdded ==
    /\ IsFileGraph
    /\ lastSaved # NoSave
    /\ \E b \in 1..Len(fns) :
          /\ fns[b].name = lastSaved.callee
          /\ fns[b].calledBy = <<docs[lastSaved.doc].decls[lastSaved.decl].name>>
          /\ Len(fns[b].calls) > 3

\* C9: an exported function without callers has a strictly higher
\* significance than any non-exported function with exactly one caller.
ExportedEntryAboveSingleCalled ==
    \A a, b \in 1..Len(fns) :
        (/\ Exported(a) /\ NumCallers(a) = 0
         /\ ~Exported(b) /\ NumCallers(b) = 1)
            => fns[a].significance > fns[b].significance

\* main (exported, no callers, two calls) next to a function with one caller
MainAndParseFileScored ==
    \E a, b \in 1..Len(fns) :
        /\ Exported(a) /\ NumCallers(a) = 0 /\ NumCalls(a) = 2
        /\ ~Exported(b) /\ NumCallers(b) = 1

----------------------------------------------------------------------------
(* The hierarchical layout *)

\* the entries of the levels map that hold function i
LevelEntriesOf(i) ==
    {p \in 1..Len(hier.placed) : hier.placed[p].name = fns[i].name}

LevelOf(i) == hier.placed[CHOOSE p \in LevelEntriesOf(i) : TRUE].level

OnCanvas(pos) ==
    /\ 0 <= pos.x /\ pos.x <= hier.canvas[1]
    /\ 0 <= pos.y /\ pos.y <= hier.canvas[2]

\* i is in exactly one level and drawn on the canvas, in the band of that
\* level: at the height of the nodes of its level and of no other level
Leveled(i) ==
    /\ Cardinality(LevelEntriesOf(i)) = 1
    /\ OnCanvas(hier.positions[i])
    /\ \A j \in 1..Len(fns) :
          LevelEntriesOf(j) # {} =>
              ((LevelOf(j) = LevelOf(i))
                  <=> (hier.positions[j].y = hier.positions[i].y))

\* i is in no level and has the off-canvas sentinel position
Excluded(i) ==
    /\ LevelEntriesOf(i) = {}
    /\ hier.positions[i] = HiddenPosition

\* C10: calculateHierarchicalLayout gives every node a position, and every
\* node is either leveled or excluded, never both.
LeveledOrExcluded ==
    hier # NoLayout =>
        /\ Len(hier.positions) = Len(fns)
        /\ \A i \in 1..Len(fns) :
              /\ Leveled(i) \/ Excluded(i)
              /\ ~(Leveled(i) /\ Excluded(i))

\* a layout of two levels or more that excludes a node
LayoutWithLevelsAndExcluded ==
    /\ hier # NoLayout
    /\ \E i, j, k \in 1..Len(fns) :
          /\ Leveled(i) /\ Leveled(j) /\ LevelOf(i) # LevelOf(j)
          /\ Excluded(k)

----------------------------------------------------------------------------
Isolated(i) == fns[i].calls = <<>> /\ fns[i].calledBy = <<>>

\* the functions that call and are not called
ChainHeads == {i \in 1..Len(fns) : fns[i].calls # <<>> /\ fns[i].calledBy = <<>>}

\* the indices met from function i along the only call of each function
RECURSIVE Follow(_)
Follow(i) ==
    IF fns[i].calls = <<>> THEN <<i>>
    ELSE <<i>> \o Follow(FindIndex(fns, fns[i].calls[1]))

TheChain == Follow(CHOOSE h \in ChainHeads : TRUE)

\* the graph is one simple call chain of k >= 2 calls and isolated functions
IsChainGraph ==
    /\ fns # <<>>
    /\ \A i \in 1..Len(fns) :
          /\ Len(fns[i].calls) <= 1 /\ Len(fns[i].calledBy) <= 1
          /\ \A c \in Range(fns[i].calls) : FindIndex(fns, c) # 0
    /\ Cardinality(ChainHeads) = 1
    /\ Len(TheChain) >= 3
    /\ \A i \in 1..Len(fns) : i \notin Range(TheChain) => Isolated(i)

\* C11: for one simple call chain v0 -> ... -> vk, k >= 2, plus isolated
\* functions, the hierarchical layout puts vi on level i and excludes every
\* isolated function.
ChainOnLevelsInCallOrder ==
    (hier # NoLayout /\ IsChainGraph) =>
        /\ \A p \in 1..Len(TheChain) :
              Leveled(TheChain[p]) /\ LevelOf(TheChain[p]) = p - 1
        /\ \A i \in 1..Len(fns) : i \notin Range(TheChain) => Excluded(i)

\* a laid out chain whose functions are declared against the call order,
\* after an isolated function
ChainAndIsolatedLaidOut ==
    /\ hier # NoLayout /\ IsChainGraph
    /\ \E i \in 1..Len(fns) : Isolated(i) /\ \A p \in Range(TheChain) : i < p
    /\ TheChain[1] > TheChain[2]

----------------------------------------------------------------------------
(* The panel: vocabulary of the properties *)

\* the graph the script holds
shown == webview.currentData.functions

\* the hierarchical layout of the held graph is on the canvas
HierarchicalShown ==
    /\ webview.currentLayout = "hierarchical"
    /\ svg.view = "standard"
    /\ Len(webview.nodePositions) = Len(shown)

CallsInView(i, j) == Includes(shown[i].calls, shown[j].name)

\* i starts a call chain of depth 2 or more, or has 2 or more callers
ChainOrHub(i) ==
    \/ getMaxDepth(shown, shown[i], {}) >= 2
    \/ Len(shown[i].calledBy) >= 2

RECURSIVE CalleesClosure(_)
CalleesClosure(S) ==
    LET T == S \cup {j \in 1..Len(shown) : \E i \in S : CallsInView(i, j)}
    IN  IF T = S THEN S ELSE CalleesClosure(T)

\* the chains and hubs, what they transitively call, and the direct
\* callers of those
MeaningfulSubset ==
    LET down == CalleesClosure({i \in 1..Len(shown) : ChainOrHub(i)})
    IN  down \cup {i \in 1..Len(shown) : \E j \in down : CallsInView(i, j)}

ConnectedInView(i) == Len(shown[i].calls) > 0 \/ Len(shown[i].calledBy) > 0

\* what the layout displays: the meaningful subset, or every function with
\* a call or a caller when that subset is empty
DisplaySubset ==
    IF MeaningfulSubset # {} THEN MeaningfulSubset
    ELSE {i \in 1..Len(shown) : ConnectedInView(i)}

\* a node or a link is drawn for i
DrawnFor(i) == i \in svg.nodes \/ \E l \in svg.links : l[1] = i \/ l[2] = i

LeveledInView(i) == webview.nodePositions[i].x > -1000

CutoffOf(s) ==
    IF s >= 2500 THEN 0
    ELSE IF s >= 1800 THEN 10
    ELSE IF s >= 1300 THEN 20
    ELSE IF s >= 1000 THEN 30
    ELSE IF s >= 800 THEN 50
    ELSE 70

\* a graph is on the canvas, and the description under it was written
\* for the current scale
DescriptionWritten == svg.view \in {"overview", "detailed", "standard"}

\* C13: the cutoff the script computes for the current scale is the
\* minimum significance of the greatest threshold at or below the scale, and
\* that of the smallest threshold below every threshold; the functions it
\* counts as eligible are those whose significance is at least the cutoff.
CutoffIsOfGreatestThresholdReached ==
    DescriptionWritten =>
        /\ svg.description.minSig = CutoffOf(webview.scale)
        /\ getMinSignificance(webview.scale) = CutoffOf(webview.scale)
        /\ svg.description.funcCount =
               Cardinality({i \in 1..Len(shown) :
                   shown[i].significance >= CutoffOf(webview.scale)})

\* zoomed out below the smallest threshold: the cutoff is 70 and a
\* function is below it
BelowSmallestThreshold ==
    /\ DescriptionWritten
    /\ webview.scale < 500
    /\ svg.description.minSig = 70
    /\ shown # <<>>
    /\ svg.description.funcCount < Len(shown)
    /\ svg.description.funcCount > 0

\* C14: while a file is expanded, every function of that file that has a
\* position on the canvas is drawn in the detailed view, whatever its
\* significance and the scale.
ExpandedFileShownWhole ==
    (svg.view = "detailed" /\ webview.expandedFiles # {}) =>
        \A i \in 1..Len(shown) :
            (/\ shown[i].fileName \in webview.expandedFiles
             /\ webview.nodePositions[i].x > -1000) => i \in svg.nodes

\* C15: in every view a link is drawn only between two drawn nodes.
LinksJoinDrawnNodes ==
    \A l \in svg.links : l[1] \in svg.nodes /\ l[2] \in svg.nodes

Unscored(i) == "significance" \notin DOMAIN shown[i]

\* the files whose nodes the detailed view draws
FilesToShow ==
    IF webview.expandedFiles # {} THEN webview.expandedFiles
    ELSE webview.fileClusters

\* C16: a function whose significance is undefined is never hidden by the
\* cutoff: whatever the scale of the render, it is drawn when it has a
\* position on the canvas and its file is shown, and it counts as eligible.
UnscoredNeverFiltered ==
    svg.view \in {"standard", "detailed"} =>
        /\ \A i \in 1..Len(shown) :
              (/\ Unscored(i)
               /\ webview.nodePositions[i].x > -1000
               /\ svg.view = "detailed" => shown[i].fileName \in FilesToShow)
              => i \in svg.nodes
        /\ svg.description.funcCount >=
               Cardinality({i \in 1..Len(shown) : Unscored(i)})

\* functions without a significance, laid out and drawn at a scale whose
\* cutoff is 70
UnscoredDrawnUnderCutoff ==
    /\ svg.view = "standard"
    /\ webview.scale < 800
    /\ svg.description.minSig = 70
    /\ svg.nodes # {}
    /\ \A i \in svg.nodes : Unscored(i)
    /\ gestures.zooms = 2

\* the step draws the held graph again without clearing the positions
RedrawStep ==
    \/ \E canvas \in ViewCanvasSizes : UpdateVisualizationOfWorkspace(canvas)
    \/ \E block \in svg.blocks : \E canvas \in ViewCanvasSizes :
           ZoomToFile(block, canvas)
    \/ /\ \E canvas \in ViewCanvasSizes : ZoomIn(canvas) \/ ZoomOut(canvas)
       /\ svg'.view # svg.view

\* the step clears the positions and draws
ClearingStep ==
    /\ \E canvas \in ViewCanvasSizes : ResetView(canvas) \/ ToggleLayout(canvas)
    /\ shown # <<>>

\* the positions after the step are a layout of the graph after the step,
\* validated as renderVisualization validates a layout
LaidOutAfresh ==
    \E canvas \in ViewCanvasSizes :
        webview'.nodePositions \in
            {validPositions(l.positions, canvas[1], canvas[2]) :
                l \in layoutsOf(webview', webview'.currentData.functions,
                               webview'.isWorkspaceMode, canvas[1], canvas[2])}

\* C17: a re-render reuses the stored positions as they are, dragged ones
\* included, exactly when there is one stored position per function of the
\* graph it draws; it lays the graph out again when there is not, and after
\* resetView or toggleLayout, which clear the stored positions.
StoredPositionsReused ==
    [][/\ (RedrawStep /\ webview'.currentData.functions # <<>>) =>
              (IF Len(webview.nodePositions) = Len(webview'.currentData.functions)
               THEN /\ webview'.nodePositions = webview.nodePositions
                    /\ \A i \in svg'.nodes : svg'.at[i] = webview.nodePositions[i]
               ELSE LaidOutAfresh)
       /\ (ClearingStep => LaidOutAfresh)]_vars

\* a node was dragged, and a click on zoom out brought the overview back:
\* the dragged position is still the stored one
DraggedThenRedrawn ==
    /\ gestures.drags > 0
    /\ svg.view = "overview"
    /\ \E i \in 1..Len(webview.nodePositions) :
          webview.nodePositions[i] \in DragTargets

----------------------------------------------------------------------------
(* Failures of the grammar pass and of the batch; complexity *)

\* the document of the displayed single-file analysis
AnalyzedDoc ==
    docs[CHOOSE i \in 1..Len(docs) : docs[i].fileName = analysis.fileName]

\* the grammar pass did not analyze the document to its end
GrammarFailed(doc) == doc.language \notin jsLanguages \/ doc.throwsAt > 0

\* what the fallback extractor makes of the document by itself
FallbackAlone(doc) ==
    LET functions == analyzeGeneric(doc.decls, doc.fileName, <<>>)
        built     == buildCalledByRelationships(functions)
    IN  [fileName  |-> doc.fileName,
         functions |-> calculateSignificance(built, <<>>),
         exports   |-> <<>>]

\* C18: when the language has no grammar or the grammar pass throws, also
\* part-way through the file, the analysis returned is the one the regex
\* fallback produces, with nothing of the failed grammar pass in it
FallbackResultIsOfFallbackAlone ==
    IsFileGraph /\ GrammarFailed(AnalyzedDoc) =>
        analysis = FallbackAlone(AnalyzedDoc)

\* the workspace command has been run
BatchRun == notice # NoNotice

\* C19: a workspace analysis in which one file fails is not aborted: it
\* ends with the merged analysis of the batch displayed, every function of
\* the files that did not fail in it
BatchSurvivesFailingFile ==
    BatchRun =>
        /\ notice = AnalyzedFiles(Len(docs))
        /\ IsMerged =>
              /\ webview.currentData = analysis
              /\ \A i \in 1..Len(docs) : \A d \in 1..Len(docs[i].decls) :
                    ~GrammarFailed(docs[i]) =>
                        \E k \in 1..Len(fns) :
                           /\ fns[k].displayName = docs[i].decls[d].name
                           /\ fns[k].fileName = docs[i].fileName

\* the node types that count as decision points
complexityNodeTypes ==
    {"if_statement", "for_statement", "while_statement", "do_statement",
     "switch_case", "case_statement", "catch_clause", "conditional_expression",
     "elif_clause", "except_clause", "for_in_statement"}

logicalOperators == {"&&", "||", "and", "or"}

\* the decision points and the logical operators among the nodes of a body
decisionPoints(nodes) ==
    Cardinality({p \in 1..Len(nodes) :
                    \/ nodes[p].type \in complexityNodeTypes
                    \/ /\ nodes[p].type = "binary_expression"
                       /\ nodes[p].operator \in logicalOperators})

\* C20: the complexity of a function analysed by the grammar path is a
\* number, the count of the decision points of its body plus one for each
\* binary expression with a logical operator
ComplexityCountsDecisionPoints ==
    IsFileGraph /\ ~GrammarFailed(AnalyzedDoc) =>
        \A k \in 1..Len(fns) :
           LET nodes == DeclOf(OriginOf(k), fns[k].name).nodes
           IN  /\ fns[k].complexity.typeof = "number"
               /\ fns[k].complexity.value = decisionPoints(nodes)

----------------------------------------------------------------------------
(* Complexity bands *)

Banded == calc.fn = "complexity" /\ calc.result # <<>>

\* C21: every complexity is in one band, low under 3, medium from 3 to 6,
\* high from 7 on, and the label, the colour and the fill of the node agree
\* on the band
BandsTotalExclusiveAndShared ==
    Banded =>
        LET band == IF calc.arg <= 2 THEN "Low"
                    ELSE IF calc.arg <= 6 THEN "Medium" ELSE "High"
        IN  /\ calc.result.label = band
            /\ calc.result.color =
                  CASE band = "Low" -> "#10b981"
                    [] band = "Medium" -> "#f59e0b"
                    [] band = "High" -> "#ef4444"
            /\ calc.result.fill =
                  CASE band = "Low" -> "#4CAF50"
                    [] band = "Medium" -> "#FFC107"
                    [] band = "High" -> "#FF5722"

\* a unit without decision points has been banded low
ZeroDecisionPointsLow ==
    Banded /\ calc.arg = 0 /\ calc.result.label = "Low"

----------------------------------------------------------------------------
(* The layouts as functions *)

LaidOutBy(fn) == calc.fn = fn /\ calc.result # <<>>

\* C22: the force layout returns one position per node, each of them
\* inside the canvas it was given
ForceLayoutInsideCanvas ==
    LaidOutBy("calculateForceLayout") =>
        /\ Len(calc.result) = Len(calc.arg.functions)
        /\ \A i \in 1..Len(calc.result) :
              /\ 0 <= calc.result[i].x /\ calc.result[i].x <= calc.arg.width
              /\ 0 <= calc.result[i].y /\ calc.result[i].y <= calc.arg.height

----------------------------------------------------------------------------
(* Coordinates that are not numbers *)

\* the canvas of the panel
ViewCanvas == CHOOSE canvas \in ViewCanvasSizes : TRUE

\* C24: no position that has been rendered from holds NaN: neither the
\* positions of the drawn nodes nor the stored positions they are taken from
NoNaNRenderedFrom ==
    /\ \A i \in svg.nodes : svg.at[i].x # NaN /\ svg.at[i].y # NaN
    /\ \A i \in 1..Len(webview.nodePositions) :
          /\ webview.nodePositions[i].x # NaN
          /\ webview.nodePositions[i].y # NaN

\* nodes of the force layout drawn on the centre of the canvas: the
\* fallback of a layout that returned NaN
DrawnAtFallback ==
    /\ webview.currentLayout = "force"
    /\ svg.nodes # {}
    /\ \A i \in svg.nodes :
          svg.at[i] = [x |-> ViewCanvas[1] \div 2, y |-> ViewCanvas[2] \div 2]

----------------------------------------------------------------------------
(* The export bonus in a merged graph *)

\* the file of function k exports it under its declared name
ExportedByItsFile(k) == Includes(docs[OriginOf(k)].exports, fns[k].displayName)

\* C25: in a single-file graph and in a merged graph alike, the functions
\* scored with the export bonus are exactly those their file exports
ExportBonusFollowsDeclaredName ==
    analysis # NoAnalysis =>
        \A k \in 1..Len(fns) :
           fns[k].significance =
              Max(0, Min(100, score(fns,
                                    IF ExportedByItsFile(k)
                                    THEN <<fns[k].name>> ELSE <<>>,
                                    fns[k])))

----------------------------------------------------------------------------
(* Termination of the hierarchical layout *)

\* i and j call each other
MutuallyRecursive(i, j) ==
    /\ i # j
    /\ Includes(fns[i].calls, fns[j].name)
    /\ Includes(fns[j].calls, fns[i].name)

\* C26: calculateHierarchicalLayout returns on every call graph, with
\* cycles, mutual recursion and calls to names outside the graph: there is
\* one position per function, the depth of a function counts the calls of
\* a path that stops at the first function met again, and no function is
\* entered in the levels twice.
LayoutReturnsOnePositionAndOneLevel ==
    /\ \A canvas \in CanvasSizes :
          Len(calculateHierarchicalLayout(fns, canvas[1], canvas[2]).positions)
              = Len(fns)
    /\ hier # NoLayout =>
           /\ Len(hier.positions) = Len(fns)
           /\ \A i \in 1..Len(fns) :
                 /\ getMaxDepth(fns, fns[i], {}) \in 0..Len(fns)
                 /\ Cardinality(LevelEntriesOf(i)) <= 1

\* two functions that call each other, both laid out on a level
MutualRecursionLeveled ==
    /\ hier # NoLayout
    /\ \E i, j \in 1..Len(fns) :
          /\ MutuallyRecursive(i, j)
          /\ Cardinality(LevelEntriesOf(i)) = 1
          /\ Cardinality(LevelEntriesOf(j)) = 1

----------------------------------------------------------------------------
(* Levels of the displayed subset *)

\* the functions the hierarchical layout displays
Displayed(i) ==
    LET display == functionsToDisplayOf(fns, meaningfulNodesOf(fns))
    IN  FindIndex(display, fns[i].name) # 0

\* C28: in the hierarchical layout every function of the displayed
\* (meaningful) subset is on a level and has a position on the canvas,
\* whatever the graph.
EveryDisplayedNodeLeveled ==
    hier # NoLayout /\ meaningfulNodesOf(fns) # {} =>
        \A i \in 1..Len(fns) : Displayed(i) =>
            /\ LevelEntriesOf(i) # {}
            /\ hier.positions[i] # HiddenPosition

----------------------------------------------------------------------------
(* The cells of the clustered layout *)

\* the files of the laid out functions, in the order of their first function
CellFiles == clusterKeys(calc.arg.functions, <<>>)

CellCols == CeilSqrtOfHalves(Len(CellFiles), 3)

CellRows == CeilDiv(Len(CellFiles), CellCols)

CellWidth == Max(250, (calc.arg.width - 400) \div CellCols)

CellHeight == Max(200, (calc.arg.height - 300) \div CellRows)

\* the cell of the k-th file: centred on the anchor of its cluster, the
\* size of a cluster less the margin on every side
CellOf(k) ==
    LET anchorX == 200 + ((k - 1) % CellCols) * CellWidth + CellWidth \div 2
        anchorY == 150 + ((k - 1) \div CellCols) * CellHeight + CellHeight \div 2
    IN  [left   |-> anchorX - CellWidth \div 2 + 30,
         right  |-> anchorX + CellWidth \div 2 - 30,
         top    |-> anchorY - CellHeight \div 2 + 30,
         bottom |-> anchorY + CellHeight \div 2 - 30]

InCell(pos, cell) ==
    /\ cell.left <= pos.x /\ pos.x <= cell.right
    /\ cell.top <= pos.y /\ pos.y <= cell.bottom

CellsApart(c, d) ==
    \/ c.right < d.left \/ d.right < c.left
    \/ c.bottom < d.top \/ d.bottom < c.top

\* C23: the clustered layout places every node inside the cell of the
\* cluster of its own file, and the cells of two files do not overlap.
NodesInsideCellOfOwnFile ==
    LaidOutBy("calculateClusteredLayout") =>
        /\ \A i \in 1..Len(calc.result) : \A k \in 1..Len(CellFiles) :
              CellFiles[k] = calc.arg.functions[i].fileName =>
                  InCell(calc.result[i], CellOf(k))
        /\ \A k, l \in 1..Len(CellFiles) :
              k # l => CellsApart(CellOf(k), CellOf(l))

\* the same for the starts that leave no node on the anchor of its cluster
NodesOffAnchorInsideCell ==
    LaidOutBy("calculateClusteredLayout")
        /\ (\A i \in 1..Len(calc.result) : calc.result[i].x # NaN) =>
            /\ \A i \in 1..Len(calc.result) : \A k \in 1..Len(CellFiles) :
                  CellFiles[k] = calc.arg.functions[i].fileName =>
                      InCell(calc.result[i], CellOf(k))
            /\ \A k, l \in 1..Len(CellFiles) :
                  k # l => CellsApart(CellOf(k), CellOf(l))

----------------------------------------------------------------------------
(* The drawn nodes after a zoom *)

\* function nodes are on the canvas
NodesView == svg.view \in {"detailed", "standard"}

\* the positioned functions at or above the cutoff of the current scale,
\* in the detailed view those of the files it shows
EligibleNow ==
    {i \in 1..Len(shown) :
        /\ webview.nodePositions[i].x > -1000
        /\ significanceOrDefault(shown[i]) >= CutoffOf(webview.scale)
        /\ svg.view = "detailed" => shown[i].fileName \in FilesToShow}

DrawnAreEligibleNow == NodesView => svg.nodes = EligibleNow

\* a step of zoomIn or zoomOut, or the end of the animation of zoomToFile
ZoomEvent ==
    \/ gestures'.zooms # gestures.zooms
    \/ webview'.expandedFiles # webview.expandedFiles /\ webview'.expandedFiles # {}

\* C27: after every zoom event the function nodes drawn are exactly the
\* positioned functions at or above the cutoff of the current scale.
DrawnNodesFollowZoom == [][ZoomEvent => DrawnAreEligibleNow']_vars

----------------------------------------------------------------------------
(* The positions of a delivered graph *)

\* an updateData message delivers a graph other than the one held
OtherGraphDelivered ==
    /\ webview'.currentData # webview.currentData
    /\ webview'.currentData.functions # webview.currentData.functions
    /\ webview'.currentData.functions # <<>>

\* C29: when updateData delivers a graph other than the one held, the
\* positions it is rendered with are a layout of the delivered graph, never
\* the positions stored for the graph held before, whatever the sizes of
\* the two graphs.
DeliveredGraphLaidOutForIt == [][OtherGraphDelivered => LaidOutAfresh]_vars

----------------------------------------------------------------------------
(* The line highlight *)

\* the pointer is on no node and every message posted was received
PointerLeftAndHandled == editor.pointer = 0 /\ editor.inbox = <<>>

\* C30: once the pointer has left a node and the clearHighlight of the
\* hover was received after its navigateToFunction, no highlight
\* decoration remains in the editor, whether or not the navigation had to
\* open another file; and there is never more than one decoration.
HighlightClearedAfterLeave ==
    /\ PointerLeftAndHandled => editor.decorations = {}
    /\ Cardinality(editor.decorations) <= 1

\* there is never more than one decoration
AtMostOneDecoration == Cardinality(editor.decorations) <= 1

====
